---- MODULE Spec2Model ----
(***************************************************************************)
(* Model of the period lifecycle of the accounting module                  *)
(* (src/period.py): the Period table, its create / write / delete          *)
(* handlers, the close / reopen / lock workflow transitions and the table  *)
(* locks Period.close takes against concurrent move transactions; and of   *)
(* its ledger (src/account.py): the figures of accounts and of their       *)
(* types, their cumulation over fiscal years, the deferrals and the        *)
(* deletion of accounts.                                                   *)
(*                                                                         *)
(* Storage: every handler runs in one database transaction; an error      *)
(* raised by the handler rolls the transaction back, so a failed call      *)
(* leaves every table as it was.  A statement reads the rows committed at  *)
(* the time it runs plus the transaction's own writes.                     *)
(***************************************************************************)
EXTENDS Integers, Sequences, FiniteSets, Bags, TLC

VARIABLES
    period,     \* account.period table: id -> row
    move,       \* account.move table: sequence of rows, the id is the index
    jp,         \* account.journal.period table: <<period, journal>> -> state
    fyState,    \* account.fiscalyear.state: id -> state
    last,       \* the latest handler call and what it returned or raised
    txn,        \* the bag of running transactions: local state, locks held
    account,    \* account.account table: id -> row
    line,       \* account.move.line table: bag of rows
    deferral,   \* account.account.deferral table: bag of rows
    fiscalyear, \* account.fiscalyear table as the ledger reads it: id -> row
    result      \* the latest call on the ledger and what it returned or raised

vars == <<period, move, jp, fyState, last, txn,
          account, line, deferral, fiscalyear, result>>

\* The tables and the call result of the ledger (accounts, lines, deferrals)
Ledger == <<account, line, deferral, fiscalyear, result>>

(***************************************************************************)
(* Bounds of the model.                                                    *)
(***************************************************************************)
MaxPeriod == 2
MaxMove == 1
MaxTxn == 2
MaxAccount == 3
MaxYear == 3
MaxLine == 2

PeriodIds == 1..MaxPeriod
MoveIds == 1..MaxMove
AccountIds == 1..MaxAccount
YearIds == 1..MaxYear
FiscalYearIds == {1, 2}
JournalIds == {1}
None == 0

(***************************************************************************)
(* Fiscal years (external records): fiscal year f spans the dates          *)
(* 2f-1 .. 3f-1 (1..2 and 3..5) and carries its own post move sequence.    *)
(***************************************************************************)
fy_start_date(f) == 2 * f - 1
fy_end_date(f) == 3 * f - 1
fy_post_move_sequence(f) == f
SequenceIds == {1, 2, 3}

\* The row of an id that is not in the table.
NoPeriod ==
    [exists |-> FALSE, start_date |-> 0, end_date |-> 0, fiscalyear |-> 0,
     state |-> "none", post_move_sequence |-> None, type |-> "none"]

default_state == "open"
default_type == "standard"

\* Period._transitions
transitions_locked_open ==
    {<<"open", "close">>, <<"close", "locked">>, <<"close", "open">>,
     <<"locked", "open">>}
transitions ==
    {<<"open", "close">>, <<"close", "locked">>, <<"close", "open">>}

Existing == {p \in PeriodIds : period[p].exists}

\* The result of a call that has not been made.
NoCall ==
    [op |-> "none", ids |-> {}, err |-> "ok", eperiod |-> 0, emove |-> 0,
     vals |-> <<>>, first |-> "none"]

Call(op, ids, vals, first) ==
    [op |-> op, ids |-> ids, err |-> "ok", eperiod |-> 0, emove |-> 0,
     vals |-> vals, first |-> first]

\* raise_user_error: the call ends with the error and its arguments.
Raised(call, err, eperiod, emove) ==
    [call EXCEPT !.err = err, !.eperiod = eperiod, !.emove = emove]

(***************************************************************************)
(* Helpers over dictionaries of values (vals: key -> value).               *)
(***************************************************************************)
Min(S) == CHOOSE x \in S : \A y \in S : x <= y

\* values.get(key) is set and true
Truthy(vals, key) == key \in DOMAIN vals /\ vals[key] # None

\* The row after super().write(values)
Apply(row, vals) ==
    [k \in DOMAIN row |-> IF k \in DOMAIN vals THEN vals[k] ELSE row[k]]

\* A table value built once (TLC would rebuild a function on every access).
Stored(t) == CHOOSE u \in {t} : u = t

StructuralKeys == {"start_date", "end_date", "fiscalyear"}

(***************************************************************************)
(* Period.validate and its three checks, on the table tbl as it stands     *)
(* after the rows were written.                                            *)
(***************************************************************************)
overlapping_ends(tbl, p) ==
    {q \in PeriodIds :
        /\ tbl[q].exists
        /\ \/ tbl[q].start_date <= tbl[p].start_date
              /\ tbl[q].end_date >= tbl[p].start_date
           \/ tbl[q].start_date <= tbl[p].end_date
              /\ tbl[q].end_date >= tbl[p].end_date
        /\ tbl[q].fiscalyear = tbl[p].fiscalyear
        /\ tbl[q].type = "standard"
        /\ q # p}
overlapping(tbl, p) ==
    {q \in PeriodIds :
        /\ tbl[q].exists
        /\ \/ tbl[q].start_date <= tbl[p].start_date
              /\ tbl[q].end_date >= tbl[p].start_date
           \/ tbl[q].start_date <= tbl[p].end_date
              /\ tbl[q].end_date >= tbl[p].end_date
           \/ tbl[q].start_date >= tbl[p].start_date
              /\ tbl[q].end_date <= tbl[p].end_date
        /\ tbl[q].fiscalyear = tbl[p].fiscalyear
        /\ tbl[q].type = "standard"
        /\ q # p}

check_dates(tbl, p) ==
    tbl[p].type # "standard" \/ overlapping(tbl, p) = {}

check_fiscalyear_dates(tbl, p) ==
    ~(\/ tbl[p].start_date < fy_start_date(tbl[p].fiscalyear)
      \/ tbl[p].end_date > fy_end_date(tbl[p].fiscalyear))

check_post_move_sequence(tbl, p) ==
    \/ tbl[p].post_move_sequence = None
    \/ {q \in PeriodIds :
            /\ tbl[q].exists
            /\ tbl[q].post_move_sequence = tbl[p].post_move_sequence
            /\ tbl[q].fiscalyear # tbl[p].fiscalyear} = {}

\* The field constraints checked before validate: fiscalyear is required and
\* start_date <= end_date (the domains of the two date fields).
field_error(tbl, p) ==
    IF tbl[p].fiscalyear = None THEN "required"
    ELSE IF tbl[p].start_date > tbl[p].end_date THEN "domain"
    ELSE "ok"

period_error(tbl, p) ==
    IF ~check_dates(tbl, p) THEN "periods_overlap"
    ELSE IF ~check_fiscalyear_dates(tbl, p) THEN "fiscalyear_dates"
    ELSE IF ~check_post_move_sequence(tbl, p) THEN "check_move_sequence"
    ELSE "ok"

\* The error of validating the periods ps (taken in id order), "ok" if none.
validate(tbl, ps) ==
    IF \E p \in ps : field_error(tbl, p) # "ok"
    THEN LET p == Min({q \in ps : field_error(tbl, q) # "ok"})
         IN  [err |-> field_error(tbl, p), eperiod |-> p]
    ELSE IF \E p \in ps : period_error(tbl, p) # "ok"
    THEN LET p == Min({q \in ps : period_error(tbl, q) # "ok"})
         IN  [err |-> period_error(tbl, p), eperiod |-> p]
    ELSE [err |-> "ok", eperiod |-> 0]

(***************************************************************************)
(* Period._check: the moves that reference one of the periods.             *)
(***************************************************************************)
check_first(ps) ==
    {m \in 1..Len(move) : ps # {} /\ move[m].period = Min(ps)}
check(ps) == {m \in 1..Len(move) : move[m].period \in ps}

\* modified(period) of Period.write, for the key the loop stopped at
modified(p, key, value) ==
    IF key \in {"start_date", "end_date"}
    THEN period[p][key] # value
    ELSE period[p].fiscalyear # value

posted_moves(p) ==
    {m \in 1..Len(move) : move[m].period = p /\ move[m].state = "posted"}

\* The periods of a write whose fiscal year is not open
closed_fiscalyear_none(ps) == {}
closed_fiscalyear(ps) ==
    {p \in ps : fyState[period[p].fiscalyear] # "open"}

\* The periods of a write for which the sequence change is refused
sequence_in_use(ps, vals) ==
    IF Truthy(vals, "post_move_sequence")
    THEN {p \in ps :
            /\ period[p].post_move_sequence # None
            /\ period[p].post_move_sequence # vals["post_move_sequence"]
            /\ posted_moves(p) # {}}
    ELSE {}

(***************************************************************************)
(* Period.write(periods, values).  first is the first of the keys          *)
(* start_date, end_date, fiscalyear that the loop over values.items()      *)
(* meets ("none" when values holds none of them).  The result is the error *)
(* raised ("ok" if none) and the table after the write.                    *)
(***************************************************************************)
write(ps, vals, first) ==
    LET referenced ==
            IF first = "none" THEN {}
            ELSE check({p \in ps : modified(p, first, vals[first])})
        reopening == "state" \in DOMAIN vals /\ vals["state"] = "open"
        tbl == Stored([p \in PeriodIds |->
                    IF p \in ps THEN Apply(period[p], vals) ELSE period[p]])
        v == validate(tbl, ps)
    IN  IF referenced # {}
        THEN [err |-> "modify_del_period_moves",
              eperiod |-> move[Min(referenced)].period, tbl |-> period]
        ELSE IF reopening /\ closed_fiscalyear(ps) # {}
        THEN [err |-> "open_period_closed_fiscalyear",
              eperiod |-> Min(closed_fiscalyear(ps)), tbl |-> period]
        ELSE IF sequence_in_use(ps, vals) # {}
        THEN [err |-> "change_post_move_sequence",
              eperiod |-> Min(sequence_in_use(ps, vals)), tbl |-> period]
        ELSE IF v.err # "ok"
        THEN [err |-> v.err, eperiod |-> v.eperiod, tbl |-> period]
        ELSE [err |-> "ok", eperiod |-> 0, tbl |-> tbl]

(***************************************************************************)
(* Workflow.transition(target): the records for which the transition from  *)
(* their current state is in _transitions; the others are skipped.         *)
(***************************************************************************)
Filtered_all(ps, target) == ps
Filtered(ps, target) ==
    {p \in ps : <<period[p].state, target>> \in transitions}

\* Move.search([('period', 'in', ids), ('state', '!=', 'posted')])
unposted_moves_first(ps) ==
    {m \in 1..Len(move) :
        ps # {} /\ move[m].period = Min(ps) /\ move[m].state # "posted"}
unposted_moves(ps) ==
    {m \in 1..Len(move) : move[m].period \in ps /\ move[m].state # "posted"}

\* JournalPeriod.search([('period', 'in', ids)])
journal_periods_none(ps) == {}
journal_periods(ps) ==
    {k \in DOMAIN jp : k[1] \in ps /\ jp[k] # "none"}

\* JournalPeriod.close(journal_periods)
JournalPeriod_close(ks) ==
    [k \in DOMAIN jp |-> IF k \in ks THEN "close" ELSE jp[k]]

(***************************************************************************)
(* Period.create(vlist).  A new row takes the smallest free id.  The       *)
(* result is the error raised ("ok" if none), the ids of the new rows and   *)
(* the table after the create.                                             *)
(***************************************************************************)
Free == PeriodIds \ Existing

\* The k smallest free ids, in ascending order
RECURSIVE NewIds(_, _)
NewIds(k, free) ==
    IF k = 0 THEN <<>>
    ELSE <<Min(free)>> \o NewIds(k - 1, free \ {Min(free)})

\* vals after the loop of create: the fiscal year's sequence by default
with_sequence(vals) ==
    IF vals.fiscalyear # None /\ vals.post_move_sequence = None
    THEN [vals EXCEPT
            !.post_move_sequence = fy_post_move_sequence(vals.fiscalyear)]
    ELSE vals

Row(vals) ==
    [exists |-> TRUE, start_date |-> vals.start_date,
     end_date |-> vals.end_date, fiscalyear |-> vals.fiscalyear,
     state |-> default_state,
     post_move_sequence |-> vals.post_move_sequence, type |-> vals.type]

\* The entries of vlist whose fiscal year is not open
create_closed_first(vlist) ==
    {i \in {1} : vlist[i].fiscalyear # None
                 /\ fyState[vlist[i].fiscalyear] # "open"}
create_closed(vlist) ==
    {i \in 1..Len(vlist) : vlist[i].fiscalyear # None
                           /\ fyState[vlist[i].fiscalyear] # "open"}

create(vlist) ==
    LET ids == NewIds(Len(vlist), Free)
        new == {ids[i] : i \in 1..Len(vlist)}
        tbl == Stored([p \in PeriodIds |->
                    IF p \in new
                    THEN Row(with_sequence(
                            vlist[CHOOSE i \in 1..Len(vlist) : ids[i] = p]))
                    ELSE period[p]])
        v == validate(tbl, new)
    IN  IF create_closed(vlist) # {}
        THEN [err |-> "create_period_closed_fiscalyear", eperiod |-> 0,
              ids |-> {}, tbl |-> period]
        ELSE IF v.err # "ok"
        THEN [err |-> v.err, eperiod |-> 0, ids |-> {}, tbl |-> period]
        ELSE [err |-> "ok", eperiod |-> 0, ids |-> new, tbl |-> tbl]

(***************************************************************************)
(* Period.delete(periods).  The journal-period records of a deleted period *)
(* go with it.                                                             *)
(***************************************************************************)
delete(ps) ==
    IF check(ps) # {}
    THEN [err |-> "modify_del_period_moves",
          eperiod |-> move[Min(check(ps))].period, tbl |-> period, jp |-> jp]
    ELSE [err |-> "ok", eperiod |-> 0,
          tbl |-> [p \in PeriodIds |->
                      IF p \in ps THEN NoPeriod ELSE period[p]],
          jp |-> [k \in DOMAIN jp |-> IF k[1] \in ps THEN "none" ELSE jp[k]]]

\* A handler of the period module called while no transaction runs beside
\* it: it leaves the running transactions and the ledger alone.
Sequential == UNCHANGED <<txn, Ledger>>

\* No call is pending: the result of the latest one was returned.
Ready == last.op = "none"

(***************************************************************************)
(* The handlers, each one call in its own database transaction.            *)
(***************************************************************************)
Create(vlist) ==
    LET c == create(vlist)
        call == Call("create", c.ids, vlist, "none")
    IN  /\ Ready
        /\ Len(vlist) <= Cardinality(Free)
        /\ period' = c.tbl
        /\ last' = Raised(call, c.err, c.eperiod, 0)
        /\ UNCHANGED <<move, jp, fyState>>
        /\ Sequential

Write(ps, vals, first) ==
    LET w == write(ps, vals, first)
        call == Call("write", ps, vals, first)
    IN  /\ Ready
        /\ period' = w.tbl
        /\ last' = Raised(call, w.err, w.eperiod, 0)
        /\ UNCHANGED <<move, jp, fyState>>
        /\ Sequential

Delete(ps) ==
    LET d == delete(ps)
        call == Call("delete", ps, <<>>, "none")
    IN  /\ Ready
        /\ period' = d.tbl
        /\ jp' = d.jp
        /\ last' = Raised(call, d.err, d.eperiod, 0)
        /\ UNCHANGED <<move, fyState>>
        /\ Sequential

\* The state write that ends a transition, with the body's effect on jp.
Transition(op, ps, target, newJp) ==
    LET f == Filtered(ps, target)
        w == write(f, "state" :> target, "none")
        call == Call(op, ps, "state" :> target, "none")
    IN  /\ period' = w.tbl
        /\ jp' = IF w.err = "ok" THEN newJp ELSE jp
        /\ last' = Raised(call, w.err, w.eperiod, 0)

close(ps) ==
    LET f == Filtered(ps, "close")
        call == Call("close", ps, "state" :> "close", "none")
    IN  /\ Ready
        /\ IF unposted_moves(f) # {}
           THEN /\ \E m \in unposted_moves(f) :
                      last' = Raised(call, "close_period_non_posted_move",
                                     move[m].period, m)
                /\ UNCHANGED <<period, jp>>
           ELSE Transition("close", ps, "close",
                           JournalPeriod_close(journal_periods(f)))
        /\ UNCHANGED <<move, fyState>>
        /\ Sequential

reopen(ps) ==
    /\ Ready
    /\ Transition("reopen", ps, "open", jp)
    /\ UNCHANGED <<move, fyState>>
    /\ Sequential

lock(ps) ==
    /\ Ready
    /\ Transition("lock", ps, "locked", jp)
    /\ UNCHANGED <<move, fyState>>
    /\ Sequential

\* The caller takes the result of the call.
Return ==
    /\ ~Ready
    /\ last' = NoCall
    /\ UNCHANGED <<period, move, jp, fyState>>
    /\ Sequential

(***************************************************************************)
(* The other tables of the module, as the specification describes them.    *)
(***************************************************************************)
\* A draft move is created in an open period.
MoveCreate(p) ==
    /\ Ready
    /\ Len(move) < MaxMove
    /\ period[p].exists /\ period[p].state = "open"
    /\ move' = Append(move, [period |-> p, state |-> "draft"])
    /\ UNCHANGED <<period, jp, fyState, last>>
    /\ Sequential

MovePost(m) ==
    /\ Ready
    /\ m \in 1..Len(move) /\ move[m].state = "draft"
    /\ move' = [move EXCEPT ![m].state = "posted"]
    /\ UNCHANGED <<period, jp, fyState, last>>
    /\ Sequential

\* A journal-period record is opened for a journal used in an open period.
JournalPeriodCreate(p, j) ==
    /\ Ready
    /\ period[p].exists /\ period[p].state = "open"
    /\ jp[<<p, j>>] = "none"
    /\ jp' = [jp EXCEPT ![<<p, j>>] = "open"]
    /\ UNCHANGED <<period, move, fyState, last>>
    /\ Sequential

FiscalYearClose(f) ==
    /\ Ready
    /\ fyState[f] = "open"
    /\ fyState' = [fyState EXCEPT ![f] = "close"]
    /\ UNCHANGED <<period, move, jp, last>>
    /\ Sequential

(***************************************************************************)
(* The ledger tables.  An account row carries its place in the tree        *)
(* (parent and the nested interval left..right) and its type; a fiscal     *)
(* year row its dates, company and state.                                  *)
(***************************************************************************)
\* A root account without type, on the interval 2a-1 .. 2a
RootAccount(a) ==
    [exists |-> TRUE, parent |-> None, left |-> 2 * a - 1, right |-> 2 * a,
     type |-> None, debit_type |-> None, credit_type |-> None]

\* No row with this id
NoAccount ==
    [exists |-> FALSE, parent |-> None, left |-> 0, right |-> 0,
     type |-> None, debit_type |-> None, credit_type |-> None]

\* An open fiscal year of company 1 on the dates 2y-1 .. 2y
OpenYear(y) ==
    [start_date |-> 2 * y - 1, end_date |-> 2 * y, company |-> 1,
     state |-> "open"]

NoResult == [op |-> "none", err |-> "ok", arg |-> 0, values |-> <<>>]

\* The ledger of the specifications that are about periods only
LedgerInit ==
    /\ account = [a \in AccountIds |-> RootAccount(a)]
    /\ line = EmptyBag
    /\ deferral = EmptyBag
    /\ fiscalyear = [y \in YearIds |-> OpenYear(y)]
    /\ result = NoResult

(***************************************************************************)
(* Init: the empty database.                                               *)
(***************************************************************************)
Init ==
    /\ period = [p \in PeriodIds |-> NoPeriod]
    /\ move = <<>>
    /\ jp = [k \in PeriodIds \X JournalIds |-> "none"]
    /\ fyState = [f \in FiscalYearIds |-> "open"]
    /\ last = NoCall
    /\ txn = EmptyBag
    /\ LedgerInit

Calls == SUBSET Existing \ {{}}

(***************************************************************************)
(* SpecLife: the lifecycle of periods.  The period with id p is created in *)
(* fiscal year 1 or 2 by the parity of p, on one day of that year.         *)
(***************************************************************************)
LifeVals(p) ==
    LET f == ((p - 1) % 2) + 1
        d == fy_start_date(f) + ((p - 1) \div 2)
    IN  [start_date |-> IF p <= 4 THEN d ELSE fy_start_date(f),
         end_date |-> IF p <= 4 THEN d ELSE fy_start_date(f),
         fiscalyear |-> f, post_move_sequence |-> None,
         type |-> IF p <= 4 THEN default_type ELSE "adjustment"]

CreateLife == Free # {} /\ Create(<<LifeVals(Min(Free))>>)

NextLife ==
    \/ CreateLife
    \/ \E ps \in Calls : close(ps)
    \/ \E ps \in Calls : reopen(ps)
    \/ \E ps \in Calls : lock(ps)
    \/ Return
    \/ \E p \in PeriodIds : MoveCreate(p)
    \/ \E m \in MoveIds : MovePost(m)
    \/ \E p \in PeriodIds, j \in JournalIds : JournalPeriodCreate(p, j)

SpecLife == Init /\ [][NextLife]_vars

(***************************************************************************)
(* SpecReopen: reopening periods while fiscal years get closed.            *)
(***************************************************************************)
NextReopen ==
    \/ CreateLife
    \/ \E ps \in Calls : close(ps)
    \/ \E ps \in Calls : reopen(ps)
    \/ \E ps \in Calls : lock(ps)
    \/ \E ps \in Calls : Write(ps, "state" :> "open", "none")
    \/ \E f \in FiscalYearIds : FiscalYearClose(f)
    \/ Return

SpecReopen == Init /\ [][NextReopen]_vars

(***************************************************************************)
(* SpecCreate: creating and deleting periods while fiscal years get        *)
(* closed.  A create call takes one or two periods.                        *)
(***************************************************************************)
Vals(f, s, e) ==
    [start_date |-> s, end_date |-> e, fiscalyear |-> f,
     post_move_sequence |-> None, type |-> default_type]

CreateVals ==
    {Vals(1, 1, 1), Vals(1, 1, 2), Vals(1, 2, 2), Vals(2, 3, 3),
     Vals(2, 1, 1), Vals(None, 1, 1)}

CreateVlists ==
    {<<v>> : v \in CreateVals} \cup {<<v, w>> : v, w \in CreateVals}

NextCreate ==
    \/ \E vlist \in CreateVlists : Create(vlist)
    \/ \E ps \in Calls : Delete(ps)
    \/ \E f \in FiscalYearIds : FiscalYearClose(f)
    \/ Return

SpecCreate == Init /\ [][NextCreate]_vars

(***************************************************************************)
(* SpecEdit: writes of start_date, end_date and fiscalyear, and deletes,   *)
(* on periods that moves may reference.  A write holds one or two of the   *)
(* three keys, met in either order.                                        *)
(***************************************************************************)
\* <<vals, first>>: the values written and the first structural key met
EditWrites ==
    {<<k :> v, k>> : k \in StructuralKeys, v \in {1, 2}}
    \cup {<<(kv[1] :> kv[3]) @@ (kv[2] :> kv[4]), kv[1]>> :
            kv \in {x \in StructuralKeys \X StructuralKeys \X {1, 2} \X {1, 2} :
                        x[1] # x[2]}}

EditVlists == {<<Vals(1, 1, 1)>>, <<Vals(1, 2, 2)>>, <<Vals(2, 3, 3)>>}

NextEdit ==
    \/ \E vlist \in EditVlists : Create(vlist)
    \/ \E ps \in Calls, w \in EditWrites : Write(ps, w[1], w[2])
    \/ \E ps \in Calls : Delete(ps)
    \/ \E p \in PeriodIds : MoveCreate(p)
    \/ Return

SpecEdit == Init /\ [][NextEdit]_vars

(***************************************************************************)
(* SpecSeq: writes of post_move_sequence on periods with posted moves.     *)
(***************************************************************************)
NextSeq ==
    \/ CreateLife
    \/ \E ps \in Calls, q \in SequenceIds \cup {None} :
          Write(ps, "post_move_sequence" :> q, "none")
    \/ \E p \in PeriodIds : MoveCreate(p)
    \/ \E m \in MoveIds : MovePost(m)
    \/ Return

SpecSeq == Init /\ [][NextSeq]_vars

(***************************************************************************)
(* Concurrent transactions.  Period.close runs statement by statement      *)
(* beside transactions that create or post a move.  database.lock takes    *)
(* the exclusive lock of a table, held until the transaction ends; it      *)
(* conflicts with the lock of every transaction that has written to the    *)
(* table and not yet ended.  Writes stay private until the commit.         *)
(***************************************************************************)
\* The tables Period.close locks, in the order it locks them
close_locks_move_first == <<"account_move", "account_journal_period">>
close_locks_journal_period_only == <<"account_journal_period">>
close_locks == <<"account_journal_period", "account_move">>

\* A transaction as it starts: no lock held
Started(kind, pc, arg) ==
    [kind |-> kind, pc |-> pc, done |-> {}, jps |-> {}, arg |-> arg,
     held |-> {}, rows |-> <<>>]

Running == BagToSet(txn)

\* The transactions that run beside r
Others(r) == txn (-) SetToBag({r})

\* u has a write to tbl that is not yet committed
Writes(u, tbl) ==
    \/ tbl = "account_move" /\ u.kind \in {"move_create", "move_post"}
    \/ tbl \in {"account_journal_period", "account_period"}
          /\ u.kind = "close" /\ u.pc = "commit"
    \/ tbl = "account_period" /\ u.kind = "create"

\* r can take the exclusive lock of tbl
LockFree(tbl, r) ==
    \A u \in BagToSet(Others(r)) : tbl \notin u.held /\ ~Writes(u, tbl)

\* a starting transaction can write to tbl
WriteFree(tbl) == \A u \in Running : tbl \notin u.held

Quiet == txn = EmptyBag

Starts == Ready /\ BagCardinality(txn) < MaxTxn

\* The number of moves that running transactions are about to insert
Inserting ==
    BagCardinality([u \in {v \in Running : /\ v.kind = "move_create"
                                            /\ period[v.arg].state = "open"}
                      |-> txn[u]])

Begin(r) == txn' = txn (+) SetToBag({r})
Step(r, r2) == txn' = Others(r) (+) SetToBag({r2})
\* The end of a transaction releases its locks
End(r) == txn' = Others(r)

Database == UNCHANGED <<period, move, jp, fyState, last, Ledger>>

\* Period.close is called: the transition keeps the periods it applies to.
CloseBegin(ps) ==
    /\ Starts
    /\ Begin([Started("close",
                      IF Len(close_locks) > 0 THEN "lock" ELSE "body", 1)
                EXCEPT !.done = Filtered(ps, "close")])
    /\ Database

\* database.lock(connection, table), for the next table of close_locks
CloseLock(r) ==
    /\ r.kind = "close" /\ r.pc = "lock"
    /\ LockFree(close_locks[r.arg], r)
    /\ Step(r, [r EXCEPT !.held = @ \cup {close_locks[r.arg]},
                         !.arg = @ + 1,
                         !.pc = IF r.arg < Len(close_locks)
                                THEN "lock" ELSE "body"])
    /\ Database

\* The lock is not granted: the transaction fails and is rolled back.
CloseLockBusy(r) ==
    /\ r.kind = "close" /\ r.pc = "lock"
    /\ ~LockFree(close_locks[r.arg], r)
    /\ End(r)
    /\ Database

\* The search of non-posted moves, the cascade and the state write (whose
\* validation locks the period table); an error rolls the transaction back.
CloseBody(r) ==
    LET f == r.done
        w == write(f, "state" :> "close", "none")
    IN  /\ r.kind = "close" /\ r.pc = "body"
        /\ LockFree("account_period", r)
        /\ IF unposted_moves(f) # {} \/ w.err # "ok"
           THEN End(r)
           ELSE Step(r, [r EXCEPT !.held = @ \cup {"account_period"},
                                  !.pc = "commit",
                                  !.jps = journal_periods(f)])
        /\ Database

CloseCommit(r) ==
    /\ r.kind = "close" /\ r.pc = "commit"
    /\ period' = [p \in PeriodIds |->
                    IF p \in r.done
                    THEN [period[p] EXCEPT !.state = "close"]
                    ELSE period[p]]
    /\ jp' = JournalPeriod_close(r.jps)
    /\ End(r)
    /\ UNCHANGED <<move, fyState, last>>
    /\ UNCHANGED Ledger

\* A transaction inserts a draft move for period p ...
MoveCreateBegin(p) ==
    /\ Starts
    /\ period[p].exists
    /\ period[p].state = "open" => Len(move) + Inserting < MaxMove
    /\ WriteFree("account_move")
    /\ Begin(Started("move_create", "validate", p))
    /\ Database

\* ... and commits it if the validation finds the period open.
MoveCreateEnd(r) ==
    /\ r.kind = "move_create"
    /\ move' = IF period[r.arg].state = "open"
               THEN Append(move, [period |-> r.arg, state |-> "draft"])
               ELSE move
    /\ End(r)
    /\ UNCHANGED <<period, jp, fyState, last>>
    /\ UNCHANGED Ledger

\* A transaction posts the draft move m ...
MovePostBegin(m) ==
    /\ Starts
    /\ m \in 1..Len(move) /\ move[m].state = "draft"
    /\ \A u \in Running : ~(u.kind = "move_post" /\ u.arg = m)
    /\ WriteFree("account_move")
    /\ Begin(Started("move_post", "commit", m))
    /\ Database

\* ... and commits.
MovePostEnd(r) ==
    /\ r.kind = "move_post"
    /\ move' = [move EXCEPT ![r.arg].state = "posted"]
    /\ End(r)
    /\ UNCHANGED <<period, jp, fyState, last>>
    /\ UNCHANGED Ledger

(***************************************************************************)
(* SpecConc: concurrent close and move transactions on the periods of      *)
(* SpecLife, all created and each with an open journal-period record per   *)
(* journal; periods are reopened and locked while no transaction runs.     *)
(***************************************************************************)
InitConc ==
    /\ period = [p \in PeriodIds |-> Row(with_sequence(LifeVals(p)))]
    /\ move = <<>>
    /\ jp = [k \in PeriodIds \X JournalIds |-> "open"]
    /\ fyState = [f \in FiscalYearIds |-> "open"]
    /\ last = NoCall
    /\ txn = EmptyBag
    /\ LedgerInit

NextConc ==
    \/ \E ps \in Calls : CloseBegin(ps)
    \/ \E r \in Running : CloseLock(r)
    \/ \E r \in Running : CloseLockBusy(r)
    \/ \E r \in Running : CloseBody(r)
    \/ \E r \in Running : CloseCommit(r)
    \/ \E p \in PeriodIds : MoveCreateBegin(p)
    \/ \E r \in Running : MoveCreateEnd(r)
    \/ \E m \in MoveIds : MovePostBegin(m)
    \/ \E r \in Running : MovePostEnd(r)
    \/ Quiet /\ \E ps \in Calls : reopen(ps)
    \/ Quiet /\ \E ps \in Calls : lock(ps)
    \/ Return

SpecConc == InitConc /\ [][NextConc]_vars

(***************************************************************************)
(* Period.create in a transaction of its own: the rows are inserted, then  *)
(* validated (check_dates locks the period table before its query), then   *)
(* committed.                                                              *)
(***************************************************************************)
\* The tables check_dates locks
check_dates_locks_none == {}
check_dates_locks == {"account_period"}

\* The ids no row has, committed or not
Unused ==
    Free \ UNION {u.done : u \in {v \in Running : v.kind = "create"}}

\* The period table as transaction r reads it: the committed rows and its own
Visible(r) ==
    Stored([p \in PeriodIds |-> IF p \in r.done THEN r.rows[p] ELSE period[p]])

PeriodCreateBegin(vlist) ==
    LET ids == NewIds(Len(vlist), Unused)
        new == {ids[i] : i \in 1..Len(vlist)}
    IN  /\ Starts
        /\ Len(vlist) <= Cardinality(Unused)
        /\ create_closed(vlist) = {}
        /\ WriteFree("account_period")
        /\ Begin([Started("create", "validate", 0) EXCEPT
                    !.done = new,
                    !.rows = [p \in new |->
                        Row(with_sequence(
                            vlist[CHOOSE i \in 1..Len(vlist) : ids[i] = p]))]])
        /\ Database

\* Period.validate on the new rows; a refused lock or a failed check rolls
\* the transaction back.
PeriodCreateValidate(r) ==
    LET tbl == Visible(r)
        locks == IF \E p \in r.done : tbl[p].type = "standard"
                 THEN check_dates_locks ELSE {}
    IN  /\ r.kind = "create" /\ r.pc = "validate"
        /\ IF /\ validate(tbl, r.done).err = "ok"
              /\ \A t \in locks : LockFree(t, r)
           THEN Step(r, [r EXCEPT !.pc = "commit", !.held = @ \cup locks])
           ELSE End(r)
        /\ Database

PeriodCreateCommit(r) ==
    /\ r.kind = "create" /\ r.pc = "commit"
    /\ period' = Visible(r)
    /\ End(r)
    /\ UNCHANGED <<move, jp, fyState, last>>
    /\ UNCHANGED Ledger

(***************************************************************************)
(* SpecDates: periods of both types created, written and deleted in the    *)
(* three-day fiscal year 2 (and one period of fiscal year 1), by calls and *)
(* by concurrent create transactions.                                      *)
(***************************************************************************)
Typed(f, s, e, type) == [Vals(f, s, e) EXCEPT !.type = type]

DateVals ==
    {Typed(2, s, e, type) : s \in 3..5, e \in 3..5,
                            type \in {"standard", "adjustment"}}
    \cup {Typed(1, 1, 2, "standard")}

DateVlists ==
    {<<v>> : v \in DateVals}
    \cup {<<Typed(2, 3, 4, "standard"), v>> : v \in DateVals}

DateWrites ==
    {<<k :> v, k>> : k \in {"start_date", "end_date"}, v \in 3..5}
    \cup {<<("start_date" :> se[1]) @@ ("end_date" :> se[2]), "start_date">> :
            se \in (3..5) \X (3..5)}
    \cup {<<"fiscalyear" :> f, "fiscalyear">> : f \in FiscalYearIds}
    \cup {<<"type" :> type, "none">> : type \in {"standard", "adjustment"}}

NextDates ==
    \/ Quiet /\ \E vlist \in DateVlists : Create(vlist)
    \/ Quiet /\ \E ps \in Calls, w \in DateWrites : Write(ps, w[1], w[2])
    \/ Quiet /\ \E ps \in Calls : Delete(ps)
    \/ \E vlist \in DateVlists : PeriodCreateBegin(vlist)
    \/ \E r \in Running : PeriodCreateValidate(r)
    \/ \E r \in Running : PeriodCreateCommit(r)
    \/ Return

SpecDates == Init /\ [][NextDates]_vars

(***************************************************************************)
(* Properties of the period lifecycle.                                     *)
(***************************************************************************)
\* A step that is the call op, made when no call was pending
Called(op) == last.op = "none" /\ last'.op = op

NonPosted(ps) ==
    {m \in 1..Len(move) : move[m].period \in ps /\ move[m].state # "posted"}

\* C1: in every interleaving of Period.close with transactions that create
\* or post moves, the non-posted check, the cascade and the state write run
\* under the exclusive locks of the journal-period and move tables, and no
\* period in state 'close' or 'locked' contains a move that is not posted.
C1_ClosedPeriodsPosted ==
    /\ \A p \in PeriodIds :
          period[p].state \in {"close", "locked"} => NonPosted({p}) = {}
    /\ \A r \in BagToSet(txn) :
          (r.kind = "close" /\ r.pc \in {"body", "commit"})
            => /\ {"account_journal_period", "account_move"} \subseteq r.held
               /\ CopiesIn(r, txn) = 1
               /\ \A u \in BagToSet(txn) \ {r} : u.held \cap r.held = {}

\* A period was closed over a posted move and a transaction that inserted a
\* draft move for it afterwards is about to be refused.
C1_Witness ==
    \E p \in PeriodIds, r \in BagToSet(txn) :
        /\ period[p].state = "close"
        /\ \E m \in 1..Len(move) : move[m].period = p
        /\ jp[<<p, 1>>] = "close"
        /\ r.kind = "move_create" /\ r.arg = p

\* C2: Period.close on a set of periods of which one contains a non-posted
\* move fails with an error naming such a move and its period, and leaves
\* every period and every journal-period record as it was.
C2_CloseRejectsNonPosted ==
    [][(Called("close") /\ NonPosted(last'.ids) # {})
        => /\ last'.err = "close_period_non_posted_move"
           /\ last'.emove \in NonPosted(last'.ids)
           /\ last'.eperiod = move[last'.emove].period
           /\ period' = period
           /\ jp' = jp]_vars

C2_Witness ==
    /\ last.op = "close"
    /\ last.err = "close_period_non_posted_move"
    /\ \E p \in last.ids :
          /\ p # last.eperiod
          /\ period[p].state = "open"
          /\ jp[<<p, 1>>] = "open"

AllowedChanges ==
    {<<"open", "close">>, <<"close", "locked">>, <<"close", "open">>}

\* C3: a period is created in state 'open'; a close, reopen or lock call
\* changes a period's state only along open->close, close->locked and
\* close->open, and never changes the state of a locked period.
C3_StateMachine ==
    [][\A p \in PeriodIds :
        /\ (~period[p].exists /\ period'[p].exists)
              => period'[p].state = "open"
        /\ (period[p].exists /\ last'.op \in {"close", "reopen", "lock"})
              => \/ period'[p].state = period[p].state
                 \/ /\ <<period[p].state, period'[p].state>> \in AllowedChanges
                    /\ period[p].state # "locked"]_vars

C3_Witness ==
    /\ last.op \in {"close", "reopen", "lock"}
    /\ \E p \in last.ids : period[p].state = "locked"
    /\ \E p \in last.ids : period[p].state = "open"

\* The periods of the call whose state does not allow the transition
Refused(op, ps) ==
    {p \in ps : \/ op = "close" /\ period[p].state # "open"
                \/ op \in {"lock", "reopen"} /\ period[p].state # "close"}

Transitions == {"close", "lock", "reopen"}

\* C4 as stated: a transition attempted from a state that does not allow it
\* ends in an error and leaves the state unchanged.
C4_RefusedRaises ==
    [][(last.op = "none" /\ last'.op \in Transitions
            /\ Refused(last'.op, last'.ids) # {})
        => (last'.err # "ok" /\ period' = period)]_vars

\* C4, amended: a transition attempted from a state that does not allow it
\* is skipped for that period without an error: the period is unchanged,
\* and a call whose periods are all in such a state returns normally and
\* changes nothing.
C4_RefusedSkipped ==
    [][(last.op = "none" /\ last'.op \in Transitions)
        => /\ \A p \in Refused(last'.op, last'.ids) : period'[p] = period[p]
           /\ Refused(last'.op, last'.ids) = last'.ids
                => (last'.err = "ok" /\ period' = period /\ jp' = jp)]_vars

C4_Witness ==
    /\ last.op = "lock"
    /\ last.err = "ok"
    /\ \E p \in last.ids : period[p].state = "open"
    /\ \E p \in last.ids : period[p].state = "locked"

\* C5: a successful Period.close moves every open period of the call to
\* 'close' and, in the same step, closes every journal-period record of
\* those periods.
C5_CascadeClose ==
    [][(Called("close") /\ last'.err = "ok")
        => \A p \in last'.ids :
              period[p].state = "open"
                => /\ period'[p].state = "close"
                   /\ \A j \in JournalIds :
                         jp[<<p, j>>] # "none" => jp'[<<p, j>>] = "close"]_vars

C5_Witness ==
    /\ last.op = "close"
    /\ last.err = "ok"
    /\ Cardinality(last.ids) >= 2
    /\ \A p \in last.ids :
          period[p].state = "close" /\ jp[<<p, 1>>] = "close"

\* C6: a write of state 'open' (the reopen transition or a plain write) to
\* a closed period whose fiscal year is not open is rejected, and the period
\* stays closed.
C6_ReopenClosedFiscalYear ==
    [][(/\ last.op = "none"
        /\ last'.op \in {"reopen", "write"}
        /\ last'.vals = ("state" :> "open")
        /\ \E p \in last'.ids :
              /\ period[p].state = "close"
              /\ fyState[period[p].fiscalyear] # "open")
        => /\ last'.err = "open_period_closed_fiscalyear"
           /\ period' = period]_vars

C6_Witness ==
    /\ last.op = "reopen"
    /\ last.err = "open_period_closed_fiscalyear"
    /\ period[last.eperiod].state = "close"
    /\ \E p \in last.ids :
          period[p].state = "close" /\ fyState[period[p].fiscalyear] = "open"

(***************************************************************************)
(* Properties of create, write and delete.                                 *)
(***************************************************************************)
ClosedEntries(vlist) ==
    {i \in 1..Len(vlist) :
        /\ vlist[i].fiscalyear # None
        /\ fyState[vlist[i].fiscalyear] # "open"}

\* C7: Period.create with a period whose fiscal year is not open is
\* rejected, and no period of the call is stored.
C7_CreateClosedFiscalYear ==
    [][(Called("create") /\ ClosedEntries(last'.vals) # {})
        => /\ last'.err = "create_period_closed_fiscalyear"
           /\ period' = period]_vars

C7_Witness ==
    /\ last.op = "create"
    /\ last.err = "create_period_closed_fiscalyear"
    /\ Len(last.vals) = 2
    /\ last.vals[1].fiscalyear # None
    /\ fyState[last.vals[1].fiscalyear] = "open"

Referenced(p) == \E m \in 1..Len(move) : move[m].period = p

\* C8: a write that changes start_date, end_date or fiscalyear of a period
\* referenced by a move is rejected and leaves the period unchanged, for
\* every combination of keys and values in the write.
C8_StructuralWriteRejected ==
    [][(/\ Called("write")
        /\ \E p \in last'.ids :
              /\ Referenced(p)
              /\ \E k \in StructuralKeys \cap DOMAIN last'.vals :
                    period[p][k] # last'.vals[k])
        => (last'.err # "ok" /\ period' = period)]_vars

\* C9: Period.delete on a set of periods of which one is referenced by a
\* move is rejected and deletes none of them; a set of periods without
\* moves is deleted.
C9_DeleteReferenced ==
    [][Called("delete")
        => IF \E p \in last'.ids : Referenced(p)
           THEN /\ last'.err = "modify_del_period_moves"
                /\ period' = period
                /\ jp' = jp
           ELSE /\ last'.err = "ok"
                /\ \A p \in last'.ids : ~period'[p].exists
                /\ \A p \in PeriodIds \ last'.ids : period'[p] = period[p]]_vars

C9_Witness ==
    /\ last.op = "delete"
    /\ last.err = "modify_del_period_moves"
    /\ \E p \in last.ids : period[p].exists /\ ~Referenced(p)

Posted(p) ==
    \E m \in 1..Len(move) : move[m].period = p /\ move[m].state = "posted"

\* C10: a write that changes post_move_sequence of a period holding a
\* posted move to any other value, a sequence or none, is rejected and the
\* period keeps its sequence.
C10_SequenceWriteRejected ==
    [][(/\ Called("write")
        /\ "post_move_sequence" \in DOMAIN last'.vals
        /\ \E p \in last'.ids :
              /\ Posted(p)
              /\ period[p].post_move_sequence
                    # last'.vals["post_move_sequence"])
        => (last'.err # "ok" /\ period' = period)]_vars


(***************************************************************************)
(* Properties of the period dates.                                         *)
(***************************************************************************)
\* The periods p and q share a day
ShareDay(p, q) ==
    /\ period[p].start_date <= period[q].end_date
    /\ period[q].start_date <= period[p].end_date

\* C11: after any sequence of validated creates and writes, by calls or by
\* concurrent create transactions, no two periods of type 'standard' of the
\* same fiscal year share a day.
C11_StandardPeriodsDisjoint ==
    \A p, q \in Existing :
        (/\ p # q
         /\ period[p].type = "standard" /\ period[q].type = "standard"
         /\ period[p].fiscalyear = period[q].fiscalyear)
        => ~ShareDay(p, q)

\* An adjustment period lies inside a standard period of its fiscal year,
\* and the write that would have made it standard was refused.
C11_Witness ==
    /\ last.op = "write" /\ last.err = "periods_overlap"
    /\ \E p, q \in Existing :
          /\ period[p].type = "adjustment" /\ period[q].type = "standard"
          /\ period[p].fiscalyear = period[q].fiscalyear
          /\ period[q].start_date < period[p].start_date
          /\ period[p].end_date < period[q].end_date


(***************************************************************************)
(* AccountDeferral: the snapshot of an account's figures for a fiscal      *)
(* year.  Rows are created (the table has the unique constraint            *)
(* deferral_uniq on account and fiscal year) and never written.            *)
(***************************************************************************)
\* The constraints of the table
sql_constraints_none == {}
sql_constraints == {"deferral_uniq"}

default_amount_second_currency == 0
default_line_count == 0

\* The row stored for the values of a create
DeferralRow(vals) ==
    [account |-> vals.account, fiscalyear |-> vals.fiscalyear,
     debit |-> vals.debit, credit |-> vals.credit,
     amount_second_currency |->
        IF "amount_second_currency" \in DOMAIN vals
        THEN vals.amount_second_currency ELSE default_amount_second_currency,
     line_count |->
        IF "line_count" \in DOMAIN vals
        THEN vals.line_count ELSE default_line_count]

\* The bag of the rows of a list of values
Rows(vlist) ==
    LET row(i) == DeferralRow(vlist[i])
    IN  [r \in {row(i) : i \in DOMAIN vlist} |->
            Cardinality({i \in DOMAIN vlist : row(i) = r})]

\* Unique(t, t.account, t.fiscalyear)
SameKey(r, u) == r.account = u.account /\ r.fiscalyear = u.fiscalyear

\* The table tbl breaks a constraint
Violates(tbl) ==
    /\ "deferral_uniq" \in sql_constraints
    /\ \E r, u \in BagToSet(tbl) :
          SameKey(r, u) /\ (r # u \/ CopiesIn(r, tbl) > 1)

\* AccountDeferral.create(vlist): the error and the table afterwards
Deferral_create(vlist) ==
    LET tbl == deferral (+) Rows(vlist)
    IN  IF Violates(tbl)
        THEN [err |-> "deferral_uniq", tbl |-> deferral]
        ELSE [err |-> "ok", tbl |-> tbl]

\* AccountDeferral.write(deferrals, values): the error and the table
\* afterwards
Deferral_write_applied(ds, values) ==
    [err |-> "ok",
     tbl |-> [r \in (BagToSet(deferral) \ ds) |-> deferral[r]]
             (+) SetToBag({Apply(r, values) : r \in ds})]
Deferral_write(ds, values) ==
    [err |-> "msg_write_deferral", tbl |-> deferral]

\* No call on the ledger is pending: the latest result was taken.
Answered == result.op = "none"

Answer(op, err, arg) == [op |-> op, err |-> err, arg |-> arg, values |-> <<>>]

\* The table holds at most one row more than the keys there are.
DeferralCap == MaxAccount * MaxYear + 1

PeriodSide == UNCHANGED <<period, move, jp, fyState, last>>

DeferralCreate(vlist) ==
    LET c == Deferral_create(vlist)
    IN  /\ Answered /\ Quiet
        /\ BagCardinality(deferral) + Len(vlist) <= DeferralCap
        /\ deferral' = c.tbl
        /\ result' = Answer("deferral_create", c.err, Len(vlist))
        /\ UNCHANGED <<account, line, fiscalyear, txn>>
        /\ PeriodSide

DeferralWrite(ds, values) ==
    LET w == Deferral_write(ds, values)
    IN  /\ Answered /\ Quiet
        /\ deferral' = w.tbl
        /\ result' = Answer("deferral_write", w.err, Cardinality(ds))
        /\ UNCHANGED <<account, line, fiscalyear, txn>>
        /\ PeriodSide

\* The caller takes the result of the call on the ledger.
Answers ==
    /\ ~Answered
    /\ result.op \in {"get_balance", "get_credit_debit"} => result.pc = "done"
    /\ result' = NoResult
    /\ UNCHANGED <<account, line, deferral, fiscalyear, txn>>
    /\ PeriodSide

(***************************************************************************)
(* The close of a fiscal year, as the specification describes it: in one   *)
(* transaction it stores a deferral for every account and closes the year. *)
(* An insert waits for the end of a transaction that holds an uncommitted  *)
(* row with the same unique key.                                           *)
(***************************************************************************)
\* The figures stored for account a and year y
Snapshot(a, y) ==
    [account |-> a, fiscalyear |-> y, debit |-> 1, credit |-> 0,
     amount_second_currency |-> 0, line_count |-> 1]

\* The rows that running transactions other than r hold uncommitted
Uncommitted(r) ==
    UNION {BagToSet(u.rows) :
            u \in {v \in BagToSet(Others(r)) : v.kind = "year_close"}}

YearCloseBegin(y) ==
    /\ Answered
    /\ BagCardinality(txn) < MaxTxn
    /\ fiscalyear[y].state = "open"
    /\ Begin(Started("year_close", "insert", y))
    /\ UNCHANGED Ledger
    /\ PeriodSide

YearCloseInsert(r) ==
    LET rows == Rows([a \in AccountIds |-> Snapshot(a, r.arg)])
    IN  /\ r.kind = "year_close" /\ r.pc = "insert"
        /\ Answered
        /\ ~Violates(SetToBag(Uncommitted(r)) (+) rows)
        /\ IF Violates(deferral (+) rows)
           THEN /\ End(r)
                /\ result' = Answer("year_close", "deferral_uniq", r.arg)
           ELSE /\ Step(r, [r EXCEPT !.pc = "commit", !.rows = rows])
                /\ UNCHANGED result
        /\ UNCHANGED <<account, line, deferral, fiscalyear>>
        /\ PeriodSide

YearCloseCommit(r) ==
    /\ r.kind = "year_close" /\ r.pc = "commit"
    /\ deferral' = deferral (+) r.rows
    /\ fiscalyear' = [fiscalyear EXCEPT ![r.arg].state = "close"]
    /\ End(r)
    /\ UNCHANGED <<account, line, result>>
    /\ PeriodSide

(***************************************************************************)
(* SpecDeferral: deferrals created by calls and by concurrent closes of a  *)
(* fiscal year, and attempts to write them.                                *)
(***************************************************************************)
DeferralVals ==
    {[account |-> 1, fiscalyear |-> y, debit |-> d, credit |-> 0] :
        y \in YearIds, d \in {0, 1}}
    \cup {Snapshot(1, 1)}

DeferralVlists ==
    {<<v>> : v \in DeferralVals}
    \cup {<<v, w>> : v, w \in {x \in DeferralVals : x.fiscalyear = 1}}

DeferralWrites ==
    {k :> 7 : k \in {"debit", "credit", "amount_second_currency",
                     "line_count"}}
    \cup {"account" :> 2, <<>>}

Targets == {ds \in SUBSET BagToSet(deferral) : Cardinality(ds) \in 1..2}

NextDeferral ==
    \/ \E vlist \in DeferralVlists : DeferralCreate(vlist)
    \/ \E ds \in Targets, values \in DeferralWrites : DeferralWrite(ds, values)
    \/ \E y \in YearIds : YearCloseBegin(y)
    \/ \E r \in Running : YearCloseInsert(r)
    \/ \E r \in Running : YearCloseCommit(r)
    \/ Answers

SpecDeferral == Init /\ [][NextDeferral]_vars

(***************************************************************************)
(* Properties of the deferrals.                                            *)
(***************************************************************************)
\* C12: every write to existing deferral records fails with the access
\* error msg_write_deferral, whatever the values written, and leaves the
\* stored debit, credit, amount_second_currency and line_count of every
\* record as they were.
C12_DeferralWriteRefused ==
    [][(Answered /\ result'.op = "deferral_write")
        => (result'.err = "msg_write_deferral" /\ deferral' = deferral)]_vars

C12_Witness ==
    /\ result.op = "deferral_write"
    /\ result.err = "msg_write_deferral"
    /\ result.arg = 2

\* The rows stored for account a and fiscal year y, each counted
HeldFor(a, y) ==
    BagCardinality([r \in {u \in BagToSet(deferral) :
                            u.account = a /\ u.fiscalyear = y}
                      |-> deferral[r]])

\* C13: there is at most one deferral per account and fiscal year; a closed
\* fiscal year holds exactly one snapshot per account, and a close that
\* failed on deferral_uniq found the snapshots of its year already stored.
C13_OneDeferralPerKey ==
    /\ \A a \in AccountIds, y \in YearIds : HeldFor(a, y) <= 1
    /\ \A y \in YearIds :
          fiscalyear[y].state = "close"
            => \A a \in AccountIds : HeldFor(a, y) = 1
    /\ (result.op = "year_close" /\ result.err = "deferral_uniq")
          => \E a \in AccountIds : HeldFor(a, result.arg) = 1

\* Two closes of the same year ran together: one stored the snapshots and
\* closed the year, the other failed on the constraint.
C13_Witness ==
    /\ result.op = "year_close" /\ result.err = "deferral_uniq"
    /\ fiscalyear[result.arg].state = "close"
    /\ \A a \in AccountIds : HeldFor(a, result.arg) = 1


(***************************************************************************)
(* The window of a query.  The context holds the keys the line query      *)
(* reads; periods is <<>> when not set and <<S>> for the set S of periods. *)
(* Every fiscal year has one period, with the id of the year, and a line   *)
(* carries the date on which its fiscal year starts.                       *)
(***************************************************************************)
NoPeriods == <<>>

Context(f, posted, cumulate) ==
    [company |-> 1, fiscalyear |-> f, date |-> None, periods |-> NoPeriods,
     from_date |-> None, to_date |-> None, posted |-> posted,
     cumulate |-> cumulate]

LineDate(l) == fiscalyear[l.fiscalyear].start_date

\* The fiscal year of the company that holds the date of the context
YearOfDate(ctx) ==
    LET ys == {y \in YearIds : /\ fiscalyear[y].start_date <= ctx.date
                               /\ fiscalyear[y].end_date >= ctx.date
                               /\ fiscalyear[y].company = ctx.company}
    IN  {y \in ys : \A z \in ys :
            \/ fiscalyear[z].start_date < fiscalyear[y].start_date
            \/ fiscalyear[z].start_date = fiscalyear[y].start_date /\ y <= z}

Windowed(ctx) ==
    \/ ctx.fiscalyear # None
    \/ Len(ctx.periods) > 0
    \/ ctx.from_date # None
    \/ ctx.to_date # None

OpenYears(ctx) ==
    {y \in YearIds : /\ fiscalyear[y].company = ctx.company
                     /\ fiscalyear[y].state = "open"}

\* MoveLine.query_get: the fiscal years of the window ...
query_fiscalyears(ctx) ==
    IF ctx.date # None THEN YearOfDate(ctx)
    ELSE IF Windowed(ctx)
    THEN IF ctx.fiscalyear # None THEN {ctx.fiscalyear} ELSE {}
    ELSE OpenYears(ctx)

\* ... and whether the line l is in the window
line_query(l, ctx) ==
    /\ IF ctx.date # None
       THEN l.fiscalyear \in YearOfDate(ctx) /\ LineDate(l) <= ctx.date
       ELSE IF Windowed(ctx)
       THEN /\ ctx.fiscalyear # None => l.fiscalyear = ctx.fiscalyear
            /\ Len(ctx.periods) > 0 => l.fiscalyear \in ctx.periods[1]
            /\ ctx.from_date # None => LineDate(l) >= ctx.from_date
            /\ ctx.to_date # None => LineDate(l) <= ctx.to_date
       ELSE l.fiscalyear \in OpenYears(ctx)
    /\ ctx.posted => l.state = "posted"

(***************************************************************************)
(* Sums over lines and the rounding of the currency.                       *)
(***************************************************************************)
\* The rounding step of the currency, in the unit amounts are written in
CurrencyRounding == 2

\* currency.round: to the nearest multiple of the step, a tie to the even one
Round(x) ==
    LET q == x \div CurrencyRounding
        r == x % CurrencyRounding
    IN  IF 2 * r < CurrencyRounding THEN q * CurrencyRounding
        ELSE IF 2 * r > CurrencyRounding THEN (q + 1) * CurrencyRounding
        ELSE IF q % 2 = 0 THEN q * CurrencyRounding
        ELSE (q + 1) * CurrencyRounding

\* The value of a line in a column of the select
Column(l, col) ==
    IF col = "balance" THEN l.debit - l.credit
    ELSE IF col = "line_count" THEN 1
    ELSE l[col]

\* Sum(column) over the rows S of the bag tbl
RECURSIVE SumRows(_, _, _)
SumRows(tbl, S, col) ==
    IF S = {} THEN 0
    ELSE LET l == CHOOSE x \in S : TRUE
         IN  tbl[l] * Column(l, col) + SumRows(tbl, S \ {l}, col)


(***************************************************************************)
(* Account.get_balance and Account.get_credit_debit.  A call is a record   *)
(* in result; one activation of the method reads the lines of its window,  *)
(* then _cumulate either ends the call or has the method run once more for *)
(* the fiscal year before.  The figures of the activations add up in       *)
(* values.                                                                 *)
(***************************************************************************)
Names == {"credit", "debit", "amount_second_currency", "line_count"}

\* The join of get_balance: the account c lies in the interval of a
Within_self(c, a) == c = a
Within(c, a) ==
    /\ account[c].left >= account[a].left
    /\ account[c].right <= account[a].right

\* The select of get_balance, rounded in the currency of each account
query_balance_raw(accounts, ctx) ==
    [a \in accounts |->
        SumRows(line,
                {l \in BagToSet(line) :
                    Within(l.account, a) /\ line_query(l, ctx)},
                "balance")]
query_balance(accounts, ctx) ==
    [a \in accounts |->
        Round(SumRows(line,
                      {l \in BagToSet(line) :
                          Within(l.account, a) /\ line_query(l, ctx)},
                      "balance"))]

\* The join of get_credit_debit: the line is a line of the account a
Joined_within(l, a) == Within(l.account, a)
Joined(l, a) == l.account = a

\* The select of get_credit_debit; a count is not rounded
query_credit_debit(accounts, names, ctx) ==
    [n \in names |->
        [a \in accounts |->
            LET sum == SumRows(line,
                               {l \in BagToSet(line) :
                                   Joined(l, a) /\ line_query(l, ctx)}, n)
            IN  IF n = "line_count" THEN sum ELSE Round(sum)]]

query(op, accounts, names, ctx) ==
    IF op = "get_balance"
    THEN [n \in names |-> query_balance(accounts, ctx)]
    ELSE query_credit_debit(accounts, names, ctx)

\* The names the method hands to _cumulate
cumulate_names_all(op, names, ctx) == names
cumulate_names(op, names, ctx) ==
    IF op = "get_balance" THEN names
    ELSE IF ctx.cumulate THEN names
    ELSE names \cap {"amount_second_currency"}

\* The fiscal year of ys that starts first
youngest_fiscalyear(ys) ==
    {y \in ys : \A z \in ys :
        \/ fiscalyear[z].start_date > fiscalyear[y].start_date
        \/ fiscalyear[z].start_date = fiscalyear[y].start_date /\ y <= z}

\* The search of _cumulate: the fiscal year of the same company that ends
\* last among those that end before y starts
Before_any_date(p, y) ==
    fiscalyear[p].company = fiscalyear[y].company
Before(p, y) ==
    /\ fiscalyear[p].end_date < fiscalyear[y].start_date
    /\ fiscalyear[p].company = fiscalyear[y].company

Latest_first(p, z) == p <= z
Latest(p, z) ==
    \/ fiscalyear[z].end_date < fiscalyear[p].end_date
    \/ fiscalyear[z].end_date = fiscalyear[p].end_date /\ p <= z

previous_fiscalyear(y) ==
    LET ps == {p \in YearIds : Before(p, y)}
    IN  {p \in ps : \A z \in ps : Latest(p, z)}

\* Deferral.get_balance: debit less credit of the deferrals of the year of d
\* on the accounts in the interval of the account of d
Deferral_get_balance(d) ==
    SumRows(deferral,
            {c \in BagToSet(deferral) :
                Within(c.account, d.account) /\ c.fiscalyear = d.fiscalyear},
            "balance")

\* getattr(deferral, name)
deferral_value(d, name) ==
    IF name = "balance" THEN Deferral_get_balance(d) ELSE d[name]

\* What the close branch of _cumulate adds for the closed year p
deferred(p, accounts, names) ==
    [n \in names |->
        [a \in accounts |->
            LET ds == {d \in BagToSet(deferral) :
                          d.fiscalyear = p /\ d.account = a}
            IN  IF ds = {} THEN 0
                ELSE deferral_value(CHOOSE d \in ds : TRUE, n)]]

\* values[name][account] += more[name][account] for the names given
Add(values, more, names) ==
    [n \in DOMAIN values |->
        IF n \in names
        THEN [a \in DOMAIN values[n] |-> values[n][a] + more[n][a]]
        ELSE values[n]]

\* The context of the call that _cumulate makes for the fiscal year p
previous_context(ctx, p) ==
    [ctx EXCEPT !.fiscalyear = p, !.date = None, !.periods = NoPeriods,
                !.from_date = None, !.to_date = None]

\* The state of the fiscal year for which _cumulate reads the deferrals
deferred_states_none == {}
deferred_states == {"close"}

\* The model of the deferrals that a method hands to _cumulate: the default
\* of the parameter for an account, None for an account with a party
NoDeferral == "None"
default_deferral == "account.account.deferral"
party_deferral_account == "account.account.deferral"
party_deferral == NoDeferral

\* _cumulate on the call q whose values so far are acc, for the names cn
_cumulate(q, acc, cn) ==
    LET ys == youngest_fiscalyear(query_fiscalyears(q.ctx))
        ps == UNION {previous_fiscalyear(y) : y \in ys}
    IN  IF ps = {} THEN [q EXCEPT !.values = acc, !.pc = "done"]
        ELSE LET p == CHOOSE x \in ps : TRUE
             IN  IF /\ fiscalyear[p].state \in deferred_states
                    /\ q.deferral # NoDeferral
                 THEN [q EXCEPT !.values =
                                   Add(acc, deferred(p, q.accounts, cn), cn),
                                !.pc = "done"]
                 ELSE [q EXCEPT !.values = acc, !.names = cn,
                                !.ctx = previous_context(q.ctx, p),
                                !.arg = q.arg + 1]

\* One activation of the method of the call q
activation(q) ==
    LET own == query(q.op, q.accounts, q.names, q.ctx)
        acc == IF q.arg = 0 THEN own ELSE Add(q.values, own, q.names)
        cn == cumulate_names(q.op, q.names, q.ctx)
    IN  IF cn = {} THEN [q EXCEPT !.values = acc, !.pc = "done"]
        ELSE _cumulate(q, acc, cn)

\* The call of a method on accounts under the context ctx
Ask(op, accounts, names, ctx) ==
    /\ Answered /\ Quiet
    /\ result' =
        IF op = "get_credit_debit" /\ ~(names \subseteq Names)
        THEN [op |-> op, err |-> "ValueError", arg |-> 0, values |-> <<>>,
              pc |-> "done", accounts |-> accounts, names |-> names,
              ctx |-> ctx, asked |-> names, window |-> ctx,
              model |-> "account.account",
              deferral |-> default_deferral]
        ELSE [op |-> op, err |-> "ok", arg |-> 0, values |-> <<>>,
              pc |-> "call", accounts |-> accounts, names |-> names,
              ctx |-> ctx, asked |-> names, window |-> ctx,
              model |-> "account.account",
              deferral |-> default_deferral]
    /\ UNCHANGED <<account, line, deferral, fiscalyear, txn>>
    /\ PeriodSide

\* The call of a method of AccountParty on the records of one party, the
\* party of every line: the record of an account is named by the account
AskParty(op, records, names, ctx) ==
    /\ Answered /\ Quiet
    /\ result' =
        IF op = "get_credit_debit" /\ ~(names \subseteq Names)
        THEN [op |-> op, err |-> "ValueError", arg |-> 0, values |-> <<>>,
              pc |-> "done", accounts |-> records, names |-> names,
              ctx |-> ctx, asked |-> names, window |-> ctx,
              model |-> "account.account.party",
              deferral |-> party_deferral]
        ELSE [op |-> op, err |-> "ok", arg |-> 0, values |-> <<>>,
              pc |-> "call", accounts |-> records, names |-> names,
              ctx |-> ctx, asked |-> names, window |-> ctx,
              model |-> "account.account.party",
              deferral |-> party_deferral]
    /\ UNCHANGED <<account, line, deferral, fiscalyear, txn>>
    /\ PeriodSide

Aggregating ==
    /\ result.op \in {"get_balance", "get_credit_debit"}
    /\ result.pc = "call"

Aggregate ==
    /\ Aggregating
    /\ result' = activation(result)
    /\ UNCHANGED <<account, line, deferral, fiscalyear, txn>>
    /\ PeriodSide

\* A call that returned its values
Returned(op) == result.op = op /\ result.pc = "done" /\ result.err = "ok"


(***************************************************************************)
(* Type.get_amount: the amount of a type of accounts, for a context with   *)
(* no start_period, end_period, from_date or to_date.                      *)
(***************************************************************************)
TypeIds == {1, 2, 3}

\* Type 1 is a balance type with assets and type 2 its child without; type
\* 3 is an income type.
Type(t) ==
    [parent |-> IF t = 2 THEN 1 ELSE None,
     statement |-> IF t = 3 THEN "income" ELSE "balance",
     assets |-> t # 2]

\* The types of account a: account 1 is of type 1, account 2 of type 2 and
\* of type 3 when in credit, account 3 of type 3 and of type 1 when in debit
Classified(r, a) ==
    [r EXCEPT !.type = IF a \in TypeIds THEN a ELSE None,
              !.credit_type = IF a = 2 THEN 3 ELSE None,
              !.debit_type = IF a = 3 THEN 1 ELSE None]

\* ('parent', 'child_of', ts)
RECURSIVE TypeUnder(_, _)
TypeUnder(c, t) ==
    \/ c = t
    \/ Type(c).parent # None /\ TypeUnder(Type(c).parent, t)

type_childs(ts) == {c \in TypeIds : \E t \in ts : TypeUnder(c, t)}

\* The sum of the values of f on S
RECURSIVE SumOf(_, _)
SumOf(f, S) ==
    IF S = {} THEN 0
    ELSE LET x == CHOOSE y \in S : TRUE
         IN  f[x] + SumOf(f, S \ {x})

\* account.credit - account.debit under the context
credit_less_debit(ctx) ==
    LET cd == query_credit_debit(AccountIds, {"credit", "debit"},
                [ctx EXCEPT !.periods = NoPeriods, !.from_date = None,
                            !.to_date = None])
    IN  [a \in AccountIds |-> cd["credit"][a] - cd["debit"][a]]

\* The type to which the second loop adds the balance of account a; an
\* account has a debit type or a credit type, never both
\* (only_one_debit_credit_types)
debit_credit_type(a, balance) ==
    IF account[a].debit_type # None /\ balance[a] < 0
    THEN account[a].debit_type
    ELSE IF account[a].credit_type # None /\ balance[a] > 0
    THEN account[a].credit_type
    ELSE None

\* The sign of the amount of the type t
type_sign_kept(t) == 1
type_sign(t) ==
    IF Type(t).statement = "balance" /\ Type(t).assets THEN -1 ELSE 1

get_amount(types, ctx) ==
    LET childs == type_childs(types)
        balance == credit_less_debit(ctx)
        accounts == {a \in AccountIds : account[a].type \in childs}
        debit_credit_accounts ==
            {a \in AccountIds :
                /\ account[a].type # None
                /\ \/ account[a].debit_type \in childs
                   \/ account[a].credit_type \in childs}
        first(t) ==
            {a \in accounts :
                /\ account[a].type = t
                /\ account[a].debit_type = None \/ balance[a] > 0
                /\ account[a].credit_type = None \/ balance[a] < 0}
        second(t) ==
            {a \in debit_credit_accounts :
                debit_credit_type(a, balance) = t}
        type_sum == [t \in childs |->
                        SumOf(balance, first(t)) + SumOf(balance, second(t))]
    IN  [t \in types |->
            type_sign(t) * Round(SumOf(type_sum, type_childs({t})))]

\* The call of Type.get_amount on types under the context ctx
AskAmount(types, ctx) ==
    LET r == get_amount(types, ctx)
    IN  /\ Answered /\ Quiet
        /\ result' = [op |-> "get_amount", err |-> "ok", arg |-> 0,
                      values |-> r, pc |-> "done", accounts |-> types,
                      names |-> {"amount"}, ctx |-> ctx,
                      asked |-> {"amount"}, window |-> ctx]
        /\ UNCHANGED <<account, line, deferral, fiscalyear, txn>>
        /\ PeriodSide

(***************************************************************************)
(* SpecBalance: lines entered on a tree of accounts in two open fiscal     *)
(* years, and the figures of the accounts asked for a fiscal year.         *)
(***************************************************************************)
\* Account 1 with every other account as a child
StarAccount(a) ==
    IF a = 1
    THEN [RootAccount(a) EXCEPT !.left = 0, !.right = 4 * MaxAccount - 2]
    ELSE [RootAccount(a) EXCEPT !.parent = 1, !.left = 4 * a - 7,
                                !.right = 4 * a - 4]

\* Account a with account a + 1 as its child
ChainAccount(a) ==
    [RootAccount(a) EXCEPT !.parent = a - 1, !.left = a,
                           !.right = 2 * MaxAccount + 1 - a]

Charts ==
    {[a \in AccountIds |-> Classified(RootAccount(a), a)],
     [a \in AccountIds |-> Classified(StarAccount(a), a)],
     [a \in AccountIds |-> Classified(ChainAccount(a), a)]}

LineRow(a, y, state, debit, credit) ==
    [account |-> a, fiscalyear |-> y, state |-> state, debit |-> debit,
     credit |-> credit,
     amount_second_currency |-> IF debit = 100 THEN 7 ELSE 0]

LineRows ==
    {LineRow(a, 1, "posted", 100, 0) : a \in AccountIds}
    \cup {LineRow(a, 1, "posted", 0, 50) : a \in AccountIds}
    \cup {LineRow(a, 1, "posted", 1, 0) : a \in AccountIds}
    \cup {LineRow(a, 1, "draft", 1, 0) : a \in AccountIds}
    \cup {LineRow(a, 2, "posted", 100, 0) : a \in AccountIds}

\* A line is entered
LineCreate(l) ==
    /\ Answered /\ Quiet
    /\ account[l.account].exists
    /\ BagCardinality(line) < MaxLine
    /\ line' = line (+) SetToBag({l})
    /\ UNCHANGED <<account, deferral, fiscalyear, result, txn>>
    /\ PeriodSide

InitBalance ==
    /\ period = [p \in PeriodIds |-> NoPeriod]
    /\ move = <<>>
    /\ jp = {}
    /\ fyState = [f \in FiscalYearIds |-> "open"]
    /\ last = NoCall
    /\ txn = EmptyBag
    /\ account \in Charts
    /\ line = EmptyBag
    /\ deferral = EmptyBag
    /\ fiscalyear = [y \in YearIds |-> OpenYear(y)]
    /\ result = NoResult

Askers == {AccountIds, {1}}

Windows == {Context(f, posted, FALSE) : f \in {1, 2}, posted \in BOOLEAN}

NextBalance ==
    \/ \E l \in LineRows : LineCreate(l)
    \/ \E as \in Askers, ctx \in Windows :
            Ask("get_balance", as, {"balance"}, ctx)
    \/ \E as \in Askers, ctx \in Windows, names \in {Names, {"balance"}} :
            Ask("get_credit_debit", as, names, ctx)
    \/ \E ts \in {TypeIds, {2}, {3}}, ctx \in Windows : AskAmount(ts, ctx)
    \/ Aggregate
    \/ Answers

SpecBalance == InitBalance /\ [][NextBalance]_vars

(***************************************************************************)
(* SpecCumulate: the figures asked for a fiscal year when the fiscal years *)
(* before it are open, closed with or without deferrals, or locked, of the *)
(* same company or of another, and numbered in the order of their dates or *)
(* not.  Every fiscal year has lines on account 1 and on its child 2.      *)
(***************************************************************************)
\* The place of the fiscal year y in the calendar
Slot(y, swapped) == IF swapped /\ y \in {1, 2} THEN 3 - y ELSE y

YearRow(slot, company, state) ==
    [start_date |-> 2 * slot - 1, end_date |-> 2 * slot,
     company |-> company, state |-> state]

YearStates == {"open", "close", "locked"}

YearTables ==
    {[y \in YearIds |->
        YearRow(Slot(y, swapped), IF y = 2 THEN company ELSE 1, states[y])] :
        swapped \in BOOLEAN, company \in {1, 2},
        states \in [YearIds -> YearStates]}

YearLines ==
    SetToBag({LineRow(1, y, "posted", 100 * 2^(y - 1), 50 * 2^(y - 1)) :
                y \in YearIds}
             \cup {LineRow(2, y, "posted", 10 * 2^(y - 1) + 1, 0) :
                y \in YearIds}
             \cup {LineRow(1, y, "draft", 1, 0) : y \in YearIds})

\* The deferral of account a for the fiscal year y
DeferralOf(a, y) ==
    [account |-> a, fiscalyear |-> y, debit |-> 250 * y * a,
     credit |-> 100 * y * a, amount_second_currency |-> 8,
     line_count |-> 5]

InitCumulate ==
    /\ period = [p \in PeriodIds |-> NoPeriod]
    /\ move = <<>>
    /\ jp = {}
    /\ fyState = [f \in FiscalYearIds |-> "open"]
    /\ last = NoCall
    /\ txn = EmptyBag
    /\ account = [a \in AccountIds |-> Classified(StarAccount(a), a)]
    /\ line = YearLines
    /\ fiscalyear \in YearTables
    /\ \E k \in 0..2 :
        deferral = SetToBag({DeferralOf(a, y) :
                                a \in 1..k,
                                y \in {z \in YearIds :
                                        fiscalyear[z].state # "open"}})
    /\ result = NoResult

\* The windows on the fiscal year f: by the fiscal year, by the fiscal year
\* with its period and its dates, and by its last date
YearWindows(f, flag) ==
    {Context(f, TRUE, flag),
     [Context(f, TRUE, flag) EXCEPT
        !.periods = <<{f}>>,
        !.from_date = fiscalyear[f].start_date,
        !.to_date = fiscalyear[f].end_date],
     [Context(None, TRUE, flag) EXCEPT !.date = fiscalyear[f].end_date]}

NextCumulate ==
    \/ \E f \in YearIds : \E ctx \in YearWindows(f, FALSE) :
            Ask("get_balance", AccountIds, {"balance"}, ctx)
    \/ \E f \in YearIds : \E ctx \in YearWindows(f, TRUE) :
            Ask("get_credit_debit", AccountIds, {"debit", "credit"}, ctx)
    \/ \E f \in YearIds : \E ctx \in YearWindows(f, FALSE) :
            Ask("get_credit_debit", AccountIds, Names, ctx)
    \/ Aggregate
    \/ Answers

SpecCumulate == InitCumulate /\ [][NextCumulate]_vars

(***************************************************************************)
(* Properties of the figures of accounts.                                  *)
(***************************************************************************)
\* The line l is in the window w of a fiscal year
Matching(l, w) ==
    /\ l.fiscalyear = w.fiscalyear
    /\ w.posted => l.state = "posted"

\* No fiscal year of the company ends before the fiscal year y starts
NoPredecessor(y) ==
    \A p \in YearIds :
        ~ /\ fiscalyear[p].company = fiscalyear[y].company
          /\ fiscalyear[p].end_date < fiscalyear[y].start_date

\* C14: for a window with no predecessor fiscal year, get_balance gives for
\* each requested account A the rounded sum of debit less credit over the
\* lines matching the window whose account C has A.left <= C.left and
\* C.right <= A.right, and 0 when there is no such line.
C14_BalanceOfSubtree ==
    (Returned("get_balance") /\ NoPredecessor(result.window.fiscalyear)) =>
        \A a \in result.accounts :
            LET ls == {l \in BagToSet(line) :
                        /\ Matching(l, result.window)
                        /\ account[a].left <= account[l.account].left
                        /\ account[l.account].right <= account[a].right}
            IN  /\ result.values["balance"][a] =
                        Round(SumRows(line, ls, "balance"))
                /\ ls = {} => result.values["balance"][a] = 0

\* The parent A of B and C, with 100 at the debit of B and 50 at the credit
\* of C, has the balance 50; B has 100 and C has -50.
C14_Witness ==
    /\ Returned("get_balance")
    /\ result.window.fiscalyear = 1
    /\ result.accounts = AccountIds
    /\ account[2].parent = 1 /\ account[3].parent = 1
    /\ line = SetToBag({LineRow(2, 1, "posted", 100, 0),
                        LineRow(3, 1, "posted", 0, 50)})
    /\ result.values["balance"][1] = 50
    /\ result.values["balance"][2] = 100
    /\ result.values["balance"][3] = -50


\* The account a is of a balance type with assets
AssetAccount(a) ==
    /\ account[a].type # None
    /\ Type(account[a].type).statement = "balance"
    /\ Type(account[a].type).assets

\* Debit less credit of the lines of the fiscal year y, posted or not as the
\* window w asks, on the accounts in the interval of a, rounded
YearBalance(a, y, w) ==
    Round(SumRows(line,
                  {l \in BagToSet(line) :
                      /\ Matching(l, [w EXCEPT !.fiscalyear = y])
                      /\ account[a].left <= account[l.account].left
                      /\ account[l.account].right <= account[a].right},
                  "balance"))

\* The amount accumulated for a up to the fiscal year of w: every fiscal
\* year is open here, so the years before are computed from their lines
Accumulated(a, w) ==
    SumOf([y \in YearIds |-> YearBalance(a, y, w)],
          {y \in YearIds : fiscalyear[y].start_date
                            <= fiscalyear[w.fiscalyear].start_date})

\* C15 as stated: for an account whose type is a balance type with assets
\* the figure of get_balance is the negation of the accumulated debit less
\* credit amount, for every other account it is not negated.
C15_AssetBalanceNegated ==
    Returned("get_balance") =>
        \A a \in result.accounts :
            result.values["balance"][a] =
                IF AssetAccount(a) THEN - Accumulated(a, result.window)
                ELSE Accumulated(a, result.window)

\* The rounded sum of a column of the own lines of a in the window w
OwnFigure(a, col, w) ==
    Round(SumRows(line,
                  {l \in BagToSet(line) : l.account = a /\ Matching(l, w)},
                  col))

\* The type under which the account a is presented in the window w: its
\* debit type when it is in debit, its credit type when it is in credit,
\* else its type
PresentedUnder(a, w) ==
    LET balance == OwnFigure(a, "credit", w) - OwnFigure(a, "debit", w)
    IN  IF account[a].debit_type # None /\ balance < 0
        THEN account[a].debit_type
        ELSE IF account[a].credit_type # None /\ balance > 0
        THEN account[a].credit_type
        ELSE account[a].type

\* Credit less debit of the accounts presented under t or a type below t
Presented(t, w) ==
    Round(SumOf([a \in AccountIds |->
                    OwnFigure(a, "credit", w) - OwnFigure(a, "debit", w)],
                {a \in AccountIds :
                    /\ PresentedUnder(a, w) # None
                    /\ TypeUnder(PresentedUnder(a, w), t)}))

\* C15, amended: the figure of get_balance is the accumulated debit less
\* credit amount, not negated, for every account, also for one whose type
\* is a balance type with assets; the negation is made by Type.get_amount:
\* the amount of a type is the rounded credit less debit of the accounts
\* presented under it, negated when the type is a balance type with assets.
C15_BalanceNotNegated ==
    /\ Returned("get_balance") =>
        \A a \in result.accounts :
            result.values["balance"][a] = Accumulated(a, result.window)
    /\ Returned("get_amount") =>
        \A t \in result.accounts :
            result.values[t] =
                IF Type(t).statement = "balance" /\ Type(t).assets
                THEN - Presented(t, result.window)
                ELSE Presented(t, result.window)

\* Account 1, of a balance type with assets, has 100 at its debit and its
\* balance is 100.
C15_Witness ==
    /\ Returned("get_balance")
    /\ 1 \in result.accounts
    /\ AssetAccount(1)
    /\ line = SetToBag({LineRow(1, 1, "posted", 100, 0)})
    /\ result.window.fiscalyear = 1
    /\ result.values["balance"][1] = 100


\* The lines of the account a itself in the window w
OwnLines(a, w) == {l \in BagToSet(line) : l.account = a /\ Matching(l, w)}

\* The fiscal years up to the one of the window w, all open here
YearsUpTo(w) ==
    {y \in YearIds : fiscalyear[y].start_date
                        <= fiscalyear[w.fiscalyear].start_date}

\* C16: get_credit_debit gives, for each requested account and each name
\* among credit, debit, amount_second_currency and line_count, the sum (the
\* count) over the lines of that account itself only; the lines of its
\* descendants never contribute and an account with no matching line gets
\* 0.  Without cumulate the lines are those of the window, and those of the
\* window and of the years before it for amount_second_currency.
C16_OwnLinesOnly ==
    (Returned("get_credit_debit") /\ ~result.window.cumulate) =>
        \A a \in result.accounts :
            /\ \A n \in {"credit", "debit"} :
                    result.values[n][a] = OwnFigure(a, n, result.window)
            /\ result.values["line_count"][a] =
                    BagCardinality([l \in OwnLines(a, result.window)
                                        |-> line[l]])
            /\ result.values["amount_second_currency"][a] =
                    SumOf([y \in YearIds |->
                            OwnFigure(a, "amount_second_currency",
                                      [result.window EXCEPT !.fiscalyear = y])],
                          YearsUpTo(result.window))
            /\ (\A y \in YearsUpTo(result.window) :
                    OwnLines(a, [result.window EXCEPT !.fiscalyear = y]) = {})
                => \A n \in Names : result.values[n][a] = 0

\* The parent 1 has no line of its own and its child 2 has one: the parent
\* gets 0 for every name, the child its line.
C16_Witness ==
    /\ Returned("get_credit_debit")
    /\ result.accounts = AccountIds
    /\ account[2].parent = 1
    /\ line = SetToBag({LineRow(2, 1, "posted", 100, 0)})
    /\ result.window.fiscalyear = 1
    /\ \A n \in Names : result.values[n][1] = 0
    /\ result.values["debit"][2] = 100
    /\ result.values["line_count"][2] = 1


(***************************************************************************)
(* Properties of the cumulation over fiscal years.                         *)
(***************************************************************************)
\* The fiscal years the window w is on
QueriedYears(w) ==
    IF w.fiscalyear # None THEN {w.fiscalyear}
    ELSE {y \in YearIds : /\ fiscalyear[y].company = w.company
                          /\ fiscalyear[y].start_date <= w.date
                          /\ w.date <= fiscalyear[y].end_date}

\* p is the fiscal year of the company of f that ends last among those that
\* end strictly before f starts
ImmediatelyBefore(p, f) ==
    /\ fiscalyear[p].company = fiscalyear[f].company
    /\ fiscalyear[p].end_date < fiscalyear[f].start_date
    /\ \A q \in YearIds :
        (/\ fiscalyear[q].company = fiscalyear[f].company
         /\ fiscalyear[q].end_date < fiscalyear[f].start_date)
            => fiscalyear[q].end_date <= fiscalyear[p].end_date

\* The deferrals stored for the account a and the fiscal year p
Held(a, p) ==
    {d \in BagToSet(deferral) : d.account = a /\ d.fiscalyear = p}

\* C17: if the fiscal year immediately before the queried one is closed and
\* holds a deferral S for the account X, get_credit_debit for X with the
\* names debit and credit, the queried fiscal year as window and cumulate
\* set gives debit = S.debit + D2.debit and credit = S.credit + D2.credit,
\* D2 being the own figures of X in the queried year.
C17_ClosedYearCarried ==
    (/\ Returned("get_credit_debit")
     /\ result.window.cumulate
     /\ {"debit", "credit"} \subseteq result.asked) =>
        \A f \in QueriedYears(result.window), p \in YearIds :
            (ImmediatelyBefore(p, f) /\ fiscalyear[p].state = "close") =>
                \A x \in result.accounts : \A S \in Held(x, p) :
                    \A n \in {"debit", "credit"} :
                        result.values[n][x] =
                            S[n] + OwnFigure(x, n,
                                    [result.window EXCEPT !.fiscalyear = f])

\* The fiscal year before the queried one is closed with the deferral
\* 500/200 of account 1, whose lines of the queried year make 100/50: the
\* figures are 600/250.
C17_Witness ==
    /\ Returned("get_credit_debit")
    /\ result.window.cumulate
    /\ result.window.fiscalyear = 1
    /\ ImmediatelyBefore(2, 1)
    /\ fiscalyear[2].state = "close"
    /\ Held(1, 2) = {DeferralOf(1, 2)}
    /\ DeferralOf(1, 2).debit = 500 /\ DeferralOf(1, 2).credit = 200
    /\ OwnFigure(1, "debit", result.window) = 100
    /\ OwnFigure(1, "credit", result.window) = 50
    /\ result.values["debit"][1] = 600
    /\ result.values["credit"][1] = 250


\* The figure n of the account a from the lines of the fiscal year y that
\* the window w takes
Figure(a, n, y, w) ==
    IF n = "balance" THEN YearBalance(a, y, w)
    ELSE IF n = "line_count"
    THEN BagCardinality([l \in OwnLines(a, [w EXCEPT !.fiscalyear = y])
                            |-> line[l]])
    ELSE OwnFigure(a, n, [w EXCEPT !.fiscalyear = y])

\* The figure n of the deferral of the account a for the fiscal year p, and
\* zero when a has no deferral for p
DeferralFigure(a, n, p) ==
    IF Held(a, p) = {} THEN 0
    ELSE IF n = "balance"
    THEN SumRows(deferral,
                 {d \in BagToSet(deferral) :
                    /\ d.fiscalyear = p
                    /\ account[a].left <= account[d.account].left
                    /\ account[d.account].right <= account[a].right},
                 "balance")
    ELSE (CHOOSE d \in Held(a, p) : TRUE)[n]

\* What the fiscal years before f bring to the figure n of the account a:
\* nothing when there is none, the deferral of the one immediately before
\* when it is closed, else its own figure and what the years before it bring
RECURSIVE Carried(_, _, _, _)
Carried(a, n, f, w) ==
    LET ps == {p \in YearIds : ImmediatelyBefore(p, f)}
    IN  IF ps = {} THEN 0
        ELSE LET p == CHOOSE x \in ps : TRUE
             IN  IF fiscalyear[p].state = "close"
                 THEN DeferralFigure(a, n, p)
                 ELSE Figure(a, n, p, w) + Carried(a, n, p, w)

\* The names that are extended with the fiscal years before
Extended(q) ==
    IF q.op = "get_balance" \/ q.ctx.cumulate THEN q.names
    ELSE q.names \cap {"amount_second_currency"}

\* The values of the call q once the figures of its window are in
WithOwn(q) ==
    [n \in q.asked |->
        [a \in q.accounts |->
            (IF q.arg = 0 THEN 0 ELSE q.values[n][a])
            + (IF n \in q.names
               THEN SumOf([y \in YearIds |-> Figure(a, n, y, q.ctx)],
                          QueriedYears(q.ctx))
               ELSE 0)]]

\* One run of the method, from the call q to the call r
OneStrategy(q, r) ==
    LET ps == {p \in YearIds :
                \E f \in QueriedYears(q.ctx) : ImmediatelyBefore(p, f)}
    IN  /\ Cardinality(ps) <= 1
        /\ ps = {} => r.pc = "done" /\ r.values = WithOwn(q)
        /\ \A p \in ps :
            IF fiscalyear[p].state = "close"
            THEN /\ r.pc = "done"
                 /\ r.arg = q.arg
                 /\ \A n \in q.asked : \A a \in q.accounts :
                        r.values[n][a] =
                            WithOwn(q)[n][a]
                            + (IF n \in Extended(q)
                               THEN DeferralFigure(a, n, p) ELSE 0)
            ELSE /\ r.pc = "call"
                 /\ r.arg = q.arg + 1
                 /\ r.values = WithOwn(q)
                 /\ r.names = Extended(q)
                 /\ r.ctx = [q.ctx EXCEPT !.fiscalyear = p, !.date = None,
                                          !.periods = NoPeriods,
                                          !.from_date = None,
                                          !.to_date = None]

\* C18: _cumulate extends the values by exactly one predecessor, the fiscal
\* year of the same company with the latest end date strictly before the
\* start date of the queried fiscal year, by one of two exclusive
\* strategies: if the predecessor is closed it adds the figures of its
\* deferrals per account (zero for an account without deferral) and makes
\* no recursive call; otherwise it adds the result of running the
\* aggregation again with the context fiscalyear set to the predecessor and
\* date, periods, from_date and to_date cleared.
C18_OnePredecessor ==
    [][(Aggregating /\ Extended(result) # {}) =>
        /\ OneStrategy(result, result')
        /\ result'.pc = "done" =>
            \A n \in Extended([result EXCEPT !.names = result.asked,
                                             !.ctx = result.window]) :
                \A a \in result.accounts :
                    \A f \in QueriedYears(result.window) :
                        result'.values[n][a] =
                            Figure(a, n, f, result.window)
                            + Carried(a, n, f, result.window)]_vars

\* A call on a fiscal year whose predecessor is open and has a closed year
\* before it: the run for the queried year called the method for the
\* predecessor, under the context cleared, and that run took the deferral.
C18_Witness ==
    /\ Returned("get_credit_debit")
    /\ result.arg = 1
    /\ Len(result.window.periods) = 1
    /\ result.ctx.periods = NoPeriods
    /\ result.ctx.to_date = None
    /\ fiscalyear[result.ctx.fiscalyear].state = "open"
    /\ \E p \in YearIds :
        /\ ImmediatelyBefore(p, result.ctx.fiscalyear)
        /\ fiscalyear[p].state = "close"
        /\ Held(1, p) # {}
        /\ Held(3, p) = {}


(***************************************************************************)
(* SpecCumulateLive: the calls of SpecCumulate on the window of a fiscal   *)
(* year, the fiscal years numbered in the order of their dates and every   *)
(* deferral stored, and a method that is called running to its return or   *)
(* to its next call.                                                       *)
(***************************************************************************)
InitCumulateLive ==
    /\ InitCumulate
    /\ \A y, z \in YearIds :
        y < z => fiscalyear[y].start_date < fiscalyear[z].start_date
    /\ \A y \in YearIds :
        fiscalyear[y].state # "open" => Held(1, y) # {} /\ Held(2, y) # {}

NextCumulateLive ==
    \/ \E f \in YearIds :
            Ask("get_balance", AccountIds, {"balance"},
                Context(f, TRUE, FALSE))
    \/ \E f \in YearIds :
            Ask("get_credit_debit", AccountIds, {"debit", "credit"},
                Context(f, TRUE, TRUE))
    \/ Aggregate
    \/ Answers

SpecCumulateLive ==
    InitCumulateLive /\ [][NextCumulateLive]_vars /\ WF_vars(Aggregate)

\* C19: for any finite set of fiscal years of a company the recursion of
\* the cumulation terminates: each recursive call is for a fiscal year that
\* ends strictly before the start of the fiscal year of the call before,
\* and the recursion stops at the first closed predecessor or when there is
\* no earlier fiscal year.
C19_CumulationTerminates ==
    /\ [][Aggregating =>
            /\ result'.pc = "call" =>
                /\ result'.arg = result.arg + 1
                /\ result'.arg < Cardinality(YearIds)
                /\ \A f \in QueriedYears(result.ctx) :
                    /\ fiscalyear[result'.ctx.fiscalyear].end_date
                            < fiscalyear[f].start_date
                    /\ fiscalyear[result'.ctx.fiscalyear].state # "close"
            /\ (result'.pc = "done" /\ Extended(result) # {}) =>
                \A f \in QueriedYears(result.ctx) :
                    \A p \in YearIds :
                        ImmediatelyBefore(p, f)
                            => fiscalyear[p].state = "close"]_vars
    /\ Aggregating ~> ~Aggregating

\* A call on the last of three open fiscal years of the company returned
\* after it ran for each of them.
C19_Witness ==
    /\ result.op = "get_balance"
    /\ result.pc = "done"
    /\ result.arg = 2
    /\ result.window.fiscalyear # None
    /\ \A y \in {result.window.fiscalyear, result.ctx.fiscalyear} :
            fiscalyear[y].state = "open"
    /\ fiscalyear[result.ctx.fiscalyear].end_date
            < fiscalyear[result.window.fiscalyear].start_date


(***************************************************************************)
(* Account.delete.  The delete of the storage refuses the accounts that a  *)
(* record not deleted with them still needs: a child account (parent is    *)
(* ondelete RESTRICT) or a deferral (its account is required).  Whether it *)
(* refuses a parent deleted together with its child is left open.  The     *)
(* intervals of the accounts that stay are not changed here.               *)
(***************************************************************************)
AllAccounts == {a \in AccountIds : account[a].exists}

\* ('parent', 'child_of', ids)
childs_self(ids) == ids
childs(ids) == {c \in AllAccounts : \E a \in ids : Within(c, a)}

\* A record outside ids holds a reference to an account of ids
Restricted(ids) ==
    \/ \E c \in AllAccounts \ ids : account[c].parent \in ids
    \/ \E d \in BagToSet(deferral) : d.account \in ids

\* An account of ids is the parent of another one of ids
Nested(ids) == \E c \in ids : account[c].parent \in ids

Deleted(ids) ==
    [a \in AccountIds |->
        IF a \in ids THEN NoAccount ELSE account[a]]

\* The outcomes of Account.delete(ids)
Account_delete(ids) ==
    IF \E l \in BagToSet(line) : l.account \in childs(ids)
    THEN {[err |-> "msg_delete_account_with_move_lines", tbl |-> account]}
    ELSE IF Restricted(ids)
    THEN {[err |-> "msg_foreign_model_exist", tbl |-> account]}
    ELSE {[err |-> "ok", tbl |-> Deleted(ids)]}
         \cup IF Nested(ids)
              THEN {[err |-> "msg_foreign_model_exist", tbl |-> account]}
              ELSE {}

AccountDelete(ids) ==
    /\ Answered /\ Quiet
    /\ \E d \in Account_delete(ids) :
        /\ account' = d.tbl
        /\ result' = [op |-> "delete", err |-> d.err,
                      arg |-> Cardinality(ids), values |-> <<>>,
                      accounts |-> ids]
    /\ UNCHANGED <<line, deferral, fiscalyear, txn>>
    /\ PeriodSide

(***************************************************************************)
(* SpecDelete: accounts of a tree deleted, with lines entered on some and  *)
(* a deferral stored for the last one or not.                              *)
(***************************************************************************)
InitDelete ==
    /\ period = [p \in PeriodIds |-> NoPeriod]
    /\ move = <<>>
    /\ jp = {}
    /\ fyState = [f \in FiscalYearIds |-> "open"]
    /\ last = NoCall
    /\ txn = EmptyBag
    /\ account \in Charts
    /\ line = EmptyBag
    /\ fiscalyear = [y \in YearIds |->
                        IF y = 1 THEN YearRow(1, 1, "close") ELSE OpenYear(y)]
    /\ deferral \in {EmptyBag, SetToBag({DeferralOf(MaxAccount, 1)})}
    /\ result = NoResult

NextDelete ==
    \/ \E a \in AccountIds : LineCreate(LineRow(a, 2, "posted", 100, 0))
    \/ \E ids \in SUBSET AllAccounts \ {{}} : AccountDelete(ids)
    \/ Answers

SpecDelete == InitDelete /\ [][NextDelete]_vars

(***************************************************************************)
(* Properties of the deletion of accounts.                                 *)
(***************************************************************************)
\* The account c is a or is below a by the parents
RECURSIVE Under(_, _)
Under(c, a) ==
    \/ c = a
    \/ account[c].parent # None /\ Under(account[c].parent, a)

\* A line is on an account of ids or on one below
LinesBelow(ids) ==
    \E l \in BagToSet(line) : \E a \in ids : Under(l.account, a)

\* The delete of ids was refused and no account was deleted
NoneDeleted == result'.err # "ok" /\ account' = account

\* The delete of ids was done: these accounts and no other are gone
AllDeleted(ids) ==
    /\ result'.err = "ok"
    /\ \A a \in AccountIds :
        account'[a].exists <=> (account[a].exists /\ a \notin ids)

\* C20 as stated: Account.delete on a set of accounts is rejected when a
\* line is on one of the accounts or on a descendant, and then no account
\* is deleted; it succeeds when there is no such line.
C20_DeleteUnlessLines ==
    [][(Answered /\ result'.op = "delete") =>
        IF LinesBelow(result'.accounts) THEN NoneDeleted
        ELSE AllDeleted(result'.accounts)]_vars

\* C20, amended: Account.delete on a set of accounts is rejected with
\* msg_delete_account_with_move_lines when a line is on one of the accounts
\* or on a descendant, and then no account is deleted.  When there is no
\* such line it is also rejected, and no account is deleted, if one of the
\* accounts has a child account that is not in the set or has a deferral;
\* it succeeds if the accounts have no child account and no deferral.
C20_DeleteGuarded ==
    [][(Answered /\ result'.op = "delete") =>
        LET ids == result'.accounts
        IN  /\ LinesBelow(ids) =>
                /\ result'.err = "msg_delete_account_with_move_lines"
                /\ account' = account
            /\ (\/ \E c \in AllAccounts \ ids : account[c].parent \in ids
                \/ \E a \in ids : \E y \in YearIds : Held(a, y) # {})
                    => NoneDeleted
            /\ (/\ ~LinesBelow(ids)
                /\ \A c \in AllAccounts : account[c].parent \notin ids
                /\ \A a \in ids : \A y \in YearIds : Held(a, y) = {})
                    => AllDeleted(ids)
            /\ result'.err # "ok" => account' = account]_vars

\* The delete of the parent 1 alone was refused for the line on its child 2.
C20_Witness ==
    /\ result.op = "delete"
    /\ result.accounts = {1}
    /\ result.err = "msg_delete_account_with_move_lines"
    /\ account[2].parent = 1
    /\ line = SetToBag({LineRow(2, 2, "posted", 100, 0)})
    /\ \A a \in AccountIds : account[a].exists

(***************************************************************************)
(* The tree of accounts.  parent is declared with left and right, so the   *)
(* storage numbers the tree again, in one depth-first pass, whenever an    *)
(* account is created or gets another parent; Account.copy asks for the    *)
(* pass itself.  A new account starts with left and right 0.               *)
(***************************************************************************)
default_left == 0
default_right == 0

\* The accounts of tbl with the parent p
Children(tbl, p) ==
    {c \in AccountIds : tbl[c].exists /\ tbl[c].parent = p}

\* The ids of S in the order of the table
RECURSIVE Sorted(_)
Sorted(S) ==
    IF S = {} THEN <<>>
    ELSE LET m == CHOOSE x \in S : \A y \in S : x <= y
         IN  <<m>> \o Sorted(S \ {m})

\* The pass over the tree below parent_id, which gets the number left:
\* the table after it and the number that follows
RECURSIVE _rebuild_tree(_, _, _)
RECURSIVE rebuild_childs(_, _, _)
_rebuild_tree_kept(tbl, parent_id, left) == [tbl |-> tbl, next |-> left]
_rebuild_tree(tbl, parent_id, left) ==
    LET r == rebuild_childs(tbl, Sorted(Children(tbl, parent_id)), left + 1)
    IN  [tbl |-> IF parent_id = None THEN r.tbl
                 ELSE [r.tbl EXCEPT ![parent_id].left = left,
                                    ![parent_id].right = r.next],
         next |-> r.next + 1]

rebuild_childs(tbl, cs, right) ==
    IF cs = <<>> THEN [tbl |-> tbl, next |-> right]
    ELSE LET c == _rebuild_tree(tbl, Head(cs), right)
         IN  rebuild_childs(c.tbl, Tail(cs), c.next)

FreeAccounts == {a \in AccountIds : ~account[a].exists}

\* The row of a new account below p
NewAccount(a, p) ==
    [RootAccount(a) EXCEPT !.parent = p, !.left = default_left,
                           !.right = default_right]

\* Account.create of one account below p (None: a root)
Account_create(a, p) ==
    _rebuild_tree([account EXCEPT ![a] = NewAccount(a, p)], None, 0).tbl

AccountCreate(p) ==
    /\ Answered /\ Quiet
    /\ FreeAccounts # {}
    /\ p = None \/ p \in AllAccounts
    /\ LET a == CHOOSE x \in FreeAccounts : \A y \in FreeAccounts : x <= y
       IN  /\ account' = Account_create(a, p)
           /\ result' = [op |-> "create", err |-> "ok", arg |-> a,
                         values |-> <<>>, accounts |-> {a}]
    /\ UNCHANGED <<line, deferral, fiscalyear, txn>>
    /\ PeriodSide

\* The account p is a or is below a by the parents of tbl
RECURSIVE Below(_, _, _)
Below(tbl, p, a) ==
    \/ p = a
    \/ tbl[p].parent # None /\ Below(tbl, tbl[p].parent, a)

\* Account.write of the parent of a: a parent below a is refused
Account_write(a, p) ==
    IF p # None /\ Below(account, p, a)
    THEN [err |-> "recursion_error", tbl |-> account]
    ELSE [err |-> "ok",
          tbl |-> _rebuild_tree([account EXCEPT ![a].parent = p],
                                None, 0).tbl]

AccountWrite(a, p) ==
    /\ Answered /\ Quiet
    /\ a \in AllAccounts
    /\ p = None \/ p \in AllAccounts
    /\ LET w == Account_write(a, p)
       IN  /\ account' = w.tbl
           /\ result' = [op |-> "write", err |-> w.err, arg |-> a,
                         values |-> <<>>, accounts |-> {a}]
    /\ UNCHANGED <<line, deferral, fiscalyear, txn>>
    /\ PeriodSide

\* The k-th of the ids of S
Nth(S, k) == Sorted(S)[k]
Index(S, x) == CHOOSE k \in 1..Cardinality(S) : Nth(S, k) = x

\* Account.copy of a: a and the accounts below it are created again, the
\* copy of a beside a, and the tree is numbered again
Account_copy(a) ==
    LET sub == {c \in AllAccounts : Below(account, c, a)}
        new(c) == Nth(FreeAccounts, Index(sub, c))
        copies == {new(c) : c \in sub}
        origin(n) == CHOOSE c \in sub : new(c) = n
        copied ==
            [n \in AccountIds |->
                IF n \in copies
                THEN [account[origin(n)] EXCEPT
                        !.parent = IF origin(n) = a THEN account[a].parent
                                   ELSE new(account[origin(n)].parent),
                        !.left = default_left, !.right = default_right]
                ELSE account[n]]
    IN  _rebuild_tree(copied, None, 0).tbl

AccountCopy(a) ==
    /\ Answered /\ Quiet
    /\ a \in AllAccounts
    /\ Cardinality({c \in AllAccounts : Below(account, c, a)})
            <= Cardinality(FreeAccounts)
    /\ account' = Account_copy(a)
    /\ result' = [op |-> "copy", err |-> "ok", arg |-> a, values |-> <<>>,
                  accounts |-> {a}]
    /\ UNCHANGED <<line, deferral, fiscalyear, txn>>
    /\ PeriodSide

(***************************************************************************)
(* SpecTree: accounts created, moved, copied and deleted, from an empty    *)
(* table or from one of the charts.                                        *)
(***************************************************************************)
InitTree ==
    /\ period = [p \in PeriodIds |-> NoPeriod]
    /\ move = <<>>
    /\ jp = {}
    /\ fyState = [f \in FiscalYearIds |-> "open"]
    /\ last = NoCall
    /\ txn = EmptyBag
    /\ account \in {[a \in AccountIds |-> NoAccount],
                    [a \in AccountIds |-> StarAccount(a)],
                    [a \in AccountIds |-> ChainAccount(a)]}
    /\ line = EmptyBag
    /\ deferral = EmptyBag
    /\ fiscalyear = [y \in YearIds |-> OpenYear(y)]
    /\ result = NoResult

NextTree ==
    \/ \E p \in AccountIds \cup {None} : AccountCreate(p)
    \/ \E a \in AccountIds, p \in AccountIds \cup {None} : AccountWrite(a, p)
    \/ \E a \in AccountIds : AccountCopy(a)
    \/ \E ids \in SUBSET AllAccounts \ {{}} : AccountDelete(ids)
    \/ Answers

SpecTree == InitTree /\ [][NextTree]_vars

\* C21: after every create, change of parent, delete and copy of accounts,
\* every account has left < right, an account below another one has its
\* interval inside the interval of that one, the intervals of two accounts
\* with the same parent do not meet, and so the interval test of get_balance
\* selects an account and the accounts below it, and no other.
C21_TreeIntervals ==
    \A a \in AllAccounts :
        /\ account[a].left < account[a].right
        /\ \A b \in AllAccounts :
            /\ Under(b, a) => /\ account[a].left <= account[b].left
                              /\ account[b].right <= account[a].right
            /\ (a # b /\ account[a].parent = account[b].parent) =>
                    \/ account[a].right < account[b].left
                    \/ account[b].right < account[a].left
            /\ Within(b, a) <=> Under(b, a)

\* Account 3 was moved below account 2, itself below account 1, and is now
\* selected by the interval of account 1.
C21_Witness ==
    /\ result.op = "write"
    /\ result.err = "ok"
    /\ result.arg = 3
    /\ AllAccounts = {1, 2, 3}
    /\ account[3].parent = 2
    /\ account[2].parent = 1
    /\ Within(3, 1)

(***************************************************************************)
(* The window of the general ledger.  The context of a general ledger     *)
(* holds fiscalyear, start_period, end_period, from_date and to_date; a    *)
(* key that is not set reads as None.  get_account and                     *)
(* _debit_credit_context turn it into the keys periods, from_date and      *)
(* to_date under which the figures of the accounts are read.  A list of    *)
(* period ids is written as the set of its members: it is only used for    *)
(* membership.  The name of a field is its prefix and the name that        *)
(* follows it.                                                             *)
(***************************************************************************)
MaxWindowPeriod == 3

WindowPeriodIds == 1..MaxWindowPeriod

AllPeriods == {p \in DOMAIN period : period[p].exists}

\* context.get(key)
context_get(ctx, key) == IF key \in DOMAIN ctx THEN ctx[key] ELSE None

Name(prefix, fname) == [prefix |-> prefix, fname |-> fname]

\* The latest standard period of the fiscal year of the context
latest_standard(ctx) ==
    LET ps == {p \in AllPeriods :
                /\ period[p].fiscalyear = context_get(ctx, "fiscalyear")
                /\ period[p].type = "standard"}
    IN  {p \in ps : \A q \in ps :
            \/ period[q].start_date < period[p].start_date
            \/ period[q].start_date = period[p].start_date /\ p <= q}

\* The period the dates are taken from, if any
boundary_period(ctx, name) ==
    IF name.prefix = "start_"
    THEN IF context_get(ctx, "start_period") # None
         THEN {context_get(ctx, "start_period")} ELSE {}
    ELSE IF context_get(ctx, "end_period") # None
         THEN {context_get(ctx, "end_period")}
         ELSE latest_standard(ctx)

\* The clause of the search for the periods before the period b
date_clause_ended(q, b, name) ==
    IF name.prefix = "start_"
    THEN period[q].end_date <= period[b].start_date
    ELSE period[q].end_date <= period[b].end_date
date_clause(q, b, name) ==
    IF name.prefix = "start_"
    THEN period[q].end_date <= period[b].start_date
    ELSE /\ period[q].end_date <= period[b].end_date
         /\ period[q].start_date < period[b].end_date

\* The period is appended when it lasts one day
one_day(b) ==
    IF period[b].start_date = period[b].end_date THEN {b} ELSE {}

get_period_ids(ctx, name) ==
    LET bs == boundary_period(ctx, name)
    IN  IF bs = {} THEN {}
        ELSE LET b == CHOOSE x \in bs : TRUE
                 periods ==
                    {q \in AllPeriods :
                        /\ period[q].fiscalyear
                                = context_get(ctx, "fiscalyear")
                        /\ date_clause(q, b, name)}
             IN  periods \cup one_day(b)
                    \cup IF name.prefix = "end_" THEN {b} ELSE {}

\* from_date - datetime.timedelta(days=1)
get_dates(ctx, name) ==
    IF name.prefix = "start_"
    THEN [from_date |-> None,
          to_date |-> IF context_get(ctx, "from_date") # None
                      THEN context_get(ctx, "from_date") - 1 ELSE None]
    ELSE [from_date |-> None, to_date |-> context_get(ctx, "to_date")]

\* The periods of a field when the context holds no period and no date
default_periods_none(name) == NoPeriods
default_periods(name) ==
    IF name.prefix = "start_" THEN <<{}>> ELSE NoPeriods

\* The keys get_account sets for the read of the field
get_account(ctx, name) ==
    IF \/ context_get(ctx, "start_period") # None
       \/ context_get(ctx, "end_period") # None
    THEN [periods |-> <<get_period_ids(ctx, name)>>,
          from_date |-> None, to_date |-> None]
    ELSE IF \/ context_get(ctx, "from_date") # None
            \/ context_get(ctx, "end_date") # None
    THEN [periods |-> NoPeriods,
          from_date |-> get_dates(ctx, name).from_date,
          to_date |-> get_dates(ctx, name).to_date]
    ELSE [periods |-> default_periods(name),
          from_date |-> None, to_date |-> None]

_debit_credit_context(ctx) ==
    IF \/ context_get(ctx, "start_period") # None
       \/ context_get(ctx, "end_period") # None
    THEN [periods |->
            <<get_period_ids(ctx, Name("end_", "balance"))
                \ get_period_ids(ctx, Name("start_", "balance"))>>,
          from_date |-> None, to_date |-> None]
    ELSE IF \/ context_get(ctx, "from_date") # None
            \/ context_get(ctx, "to_date") # None
    THEN [periods |-> NoPeriods,
          from_date |-> context_get(ctx, "from_date"),
          to_date |-> context_get(ctx, "to_date")]
    ELSE [periods |-> NoPeriods, from_date |-> None, to_date |-> None]

\* A field of the general ledger is read for the accounts
GetAccount(ctx, name) ==
    /\ Answered /\ Quiet
    /\ result' = [op |-> "get_account", err |-> "ok", arg |-> 0,
                  values |-> <<>>, ctx |-> ctx, name |-> name,
                  window |-> get_account(ctx, name)]
    /\ UNCHANGED <<account, line, deferral, fiscalyear, txn>>
    /\ PeriodSide

\* debit and credit of the general ledger are read for the accounts
GetDebitCredit(ctx, fname) ==
    /\ Answered /\ Quiet
    /\ result' = [op |-> "get_debit_credit", err |-> "ok", arg |-> 0,
                  values |-> <<>>, ctx |-> ctx, name |-> Name("", fname),
                  window |-> _debit_credit_context(ctx)]
    /\ UNCHANGED <<account, line, deferral, fiscalyear, txn>>
    /\ PeriodSide

(***************************************************************************)
(* SpecWindow: the windows of the general ledger over the tables of        *)
(* periods of fiscal year 2 (the dates 3 to 5), with standard periods that *)
(* do not overlap, adjustment periods, and a period of fiscal year 1.      *)
(***************************************************************************)
WindowYear == 2

PeriodRow(f, s, e, t) ==
    [exists |-> TRUE, start_date |-> s, end_date |-> e, fiscalyear |-> f,
     state |-> default_state, post_move_sequence |-> None, type |-> t]

WindowRows ==
    {PeriodRow(WindowYear, s, e, t) :
        s \in fy_start_date(WindowYear)..fy_end_date(WindowYear),
        e \in fy_start_date(WindowYear)..fy_end_date(WindowYear),
        t \in {"standard", "adjustment"}}
    \cup {PeriodRow(1, fy_start_date(1), fy_end_date(1), "standard")}

\* The rows of a table are entered by dates, a standard period first
RowRank(r) ==
    IF ~r.exists THEN 1000
    ELSE 100 * r.start_date + 10 * r.end_date
            + IF r.type = "standard" THEN 0 ELSE 1

WindowTables ==
    {t \in [WindowPeriodIds -> WindowRows \cup {NoPeriod}] :
        /\ \A p \in WindowPeriodIds : t[p].exists =>
                t[p].start_date <= t[p].end_date
        /\ \A p, q \in WindowPeriodIds :
            /\ (p < q /\ t[p].exists) => RowRank(t[p]) < RowRank(t[q])
            /\ (p < q /\ ~t[p].exists) => ~t[q].exists
            /\ (/\ p # q /\ t[p].exists /\ t[q].exists
                /\ t[p].type = "standard" /\ t[q].type = "standard")
                    => \/ t[p].end_date < t[q].start_date
                       \/ t[q].end_date < t[p].start_date}

WindowDates == {None, fy_start_date(WindowYear) + 1}

\* The contexts: periods and no date, or dates and no period
WindowContexts ==
    {[fiscalyear |-> WindowYear, start_period |-> s, end_period |-> e,
      from_date |-> None, to_date |-> None] :
        s \in AllPeriods \cup {None}, e \in AllPeriods \cup {None}}
    \cup {[fiscalyear |-> WindowYear, start_period |-> None,
           end_period |-> None, from_date |-> f, to_date |-> t] :
            f \in WindowDates, t \in WindowDates}

InitWindow ==
    /\ period \in WindowTables
    /\ move = <<>>
    /\ jp = {}
    /\ fyState = [f \in FiscalYearIds |-> "open"]
    /\ last = NoCall
    /\ txn = EmptyBag
    /\ LedgerInit

NextWindow ==
    \/ \E ctx \in WindowContexts, prefix \in {"start_", "end_"} :
            GetAccount(ctx, Name(prefix, "balance"))
    \/ \E ctx \in WindowContexts, fname \in {"debit", "credit"} :
            GetDebitCredit(ctx, fname)
    \/ Answers

SpecWindow == InitWindow /\ [][NextWindow]_vars

(***************************************************************************)
(* Properties of the windows of the general ledger.                        *)
(***************************************************************************)
\* The periods of the fiscal year of the context of the call
YearPeriods ==
    {q \in AllPeriods : period[q].fiscalyear = result.ctx.fiscalyear}

\* The call read a field with this prefix by sets of periods
ByPeriods(prefix) ==
    /\ result.op = "get_account"
    /\ result.name.prefix = prefix
    /\ result.ctx.start_period # None \/ result.ctx.end_period # None

\* C22: for a start_ field with the start period S in the context, the
\* periods are the periods of the fiscal year of the context that end before
\* S begins; S is never one of them, nor is a period that starts on the
\* start date of S or later.
C22_StartBeforeBoundary ==
    (ByPeriods("start_") /\ result.ctx.start_period # None) =>
        LET S == result.ctx.start_period
            ids == result.window.periods[1]
        IN  /\ ids = {q \in YearPeriods :
                        period[q].end_date < period[S].start_date}
            /\ S \notin ids
            /\ \A q \in ids : period[q].start_date < period[S].start_date

\* The period E of an end_ field
EndPeriod ==
    IF result.ctx.end_period # None THEN {result.ctx.end_period}
    ELSE {p \in YearPeriods :
            /\ period[p].type = "standard"
            /\ \A q \in YearPeriods : period[q].type = "standard" =>
                    period[q].start_date <= period[p].start_date}

\* C23 as stated: for an end_ field the periods are E, the end period of the
\* context or else the latest standard period of its fiscal year, and every
\* period of that fiscal year that ends on the end date of E or before.
C23_EndThroughBoundary ==
    (ByPeriods("end_") /\ EndPeriod # {}) =>
        \A E \in EndPeriod :
            result.window.periods[1] =
                {E} \cup {q \in YearPeriods :
                            period[q].end_date <= period[E].end_date}

\* C23, amended: for an end_ field the periods are E and every period of
\* that fiscal year that ends on the end date of E or before and starts
\* before the end date of E; E is one of them whatever its dates, and there
\* is no period when there is no E.
C23_EndThroughBoundaryStarted ==
    ByPeriods("end_") =>
        /\ Cardinality(EndPeriod) <= 1
        /\ EndPeriod = {} => result.window.periods = <<{}>>
        /\ \A E \in EndPeriod :
            /\ E \in result.window.periods[1]
            /\ result.window.periods[1] =
                {E} \cup {q \in YearPeriods :
                            /\ period[q].end_date <= period[E].end_date
                            /\ period[q].start_date < period[E].end_date}

\* The end period 2 lasts one day, and an adjustment period of the same day
\* is left out while the period before is taken.
C23_Witness ==
    /\ ByPeriods("end_")
    /\ result.ctx.end_period = 2
    /\ period[2].start_date = period[2].end_date
    /\ period[3].exists
    /\ period[3].type = "adjustment"
    /\ period[3].fiscalyear = WindowYear
    /\ period[3].start_date = period[2].end_date
    /\ period[3].end_date = period[2].end_date
    /\ period[1].fiscalyear = WindowYear
    /\ result.window.periods = <<{1, 2}>>

\* The context of the call holds no period and no date
NoWindow ==
    /\ result.op = "get_account"
    /\ result.ctx.start_period = None
    /\ result.ctx.end_period = None
    /\ result.ctx.from_date = None
    /\ result.ctx.to_date = None

\* The open periods that no open period follows
MostRecentOpen ==
    {p \in AllPeriods :
        /\ period[p].state = "open"
        /\ \A q \in AllPeriods : period[q].state = "open" =>
                period[q].start_date <= period[p].start_date}

\* C24 as stated: without start_period, end_period, from_date and to_date, a
\* start_ field is computed over no period and an end_ field over the single
\* most recent open period.
C24_DefaultMostRecentPeriod ==
    NoWindow =>
        IF result.name.prefix = "start_"
        THEN result.window.periods = <<{}>>
        ELSE /\ Len(result.window.periods) = 1
             /\ result.window.periods[1] \subseteq MostRecentOpen
             /\ MostRecentOpen # {} =>
                    Cardinality(result.window.periods[1]) = 1

\* C24, amended: without start_period, end_period, from_date and to_date, a
\* start_ field is computed over no period and an end_ field with no set of
\* periods and no date at all.
C24_DefaultNoFilter ==
    NoWindow =>
        /\ result.window.from_date = None
        /\ result.window.to_date = None
        /\ IF result.name.prefix = "start_"
           THEN result.window.periods = <<{}>>
           ELSE result.window.periods = NoPeriods

\* A start_ field was read without period and date in the context, over a
\* table with an open period.
C24_Witness ==
    /\ NoWindow
    /\ result.name.prefix = "start_"
    /\ result.window.periods = <<{}>>
    /\ MostRecentOpen # {}

\* The call ran with a set of periods and no date
UsesPeriods ==
    /\ Len(result.window.periods) = 1
    /\ result.window.from_date = None
    /\ result.window.to_date = None

\* The call ran with the dates of the context and no set of periods
UsesDates ==
    /\ result.window.periods = NoPeriods
    /\ (result.op = "get_account" /\ result.name.prefix = "end_") =>
            result.window.to_date = result.ctx.to_date
    /\ result.op = "get_debit_credit" =>
            /\ result.window.from_date = result.ctx.from_date
            /\ result.window.to_date = result.ctx.to_date

\* The call ran without date, and without set of periods unless it read a
\* start_ field
UsesNeither ==
    /\ result.window.from_date = None
    /\ result.window.to_date = None
    /\ result.window.periods =
            IF result.op = "get_account" /\ result.name.prefix = "start_"
            THEN <<{}>> ELSE NoPeriods

\* C27: get_account and _debit_credit_context choose alike: sets of periods
\* when start_period or end_period is set; else dates when from_date or
\* to_date is set, either of them, and then an end_ field has the to_date of
\* the context; else no period and no date.
C27_SameAddressing ==
    result.op \in {"get_account", "get_debit_credit"} =>
        IF result.ctx.start_period # None \/ result.ctx.end_period # None
        THEN UsesPeriods
        ELSE IF result.ctx.from_date # None \/ result.ctx.to_date # None
        THEN UsesDates
        ELSE UsesNeither

\* C28: for a start period S and an end period E of the fiscal year of the
\* context, S not starting after E, the periods of debit and credit hold S,
\* E and every period between them, and no period that ends before S
\* starts, whatever the length of the periods.
C28_PeriodsFromStartToEnd ==
    (/\ result.op = "get_debit_credit"
     /\ result.ctx.start_period # None
     /\ result.ctx.end_period # None) =>
        LET S == result.ctx.start_period
            E == result.ctx.end_period
            ids == result.window.periods[1]
        IN  (/\ S \in YearPeriods /\ E \in YearPeriods
             /\ period[S].start_date <= period[E].start_date) =>
                /\ S \in ids
                /\ E \in ids
                /\ \A q \in YearPeriods :
                    (/\ period[q].start_date > period[S].end_date
                     /\ period[q].end_date < period[E].start_date)
                        => q \in ids
                /\ \A q \in ids : period[q].end_date >= period[S].start_date

(***************************************************************************)
(* Properties of the rounding of the figures.                              *)
(***************************************************************************)
\* The sum, not rounded, of the column n over the lines of the fiscal year y
\* that the window w takes: of the accounts in the interval of a for the
\* balance, of a itself for the other names
RawFigure(a, n, y, w) ==
    SumRows(line,
            {l \in BagToSet(line) :
                /\ Matching(l, [w EXCEPT !.fiscalyear = y])
                /\ IF n = "balance"
                   THEN /\ account[a].left <= account[l.account].left
                        /\ account[l.account].right <= account[a].right
                   ELSE l.account = a},
            n)

\* A figure as the currency rounds it; a count is not rounded
Rounded(n, x) == IF n = "line_count" THEN x ELSE Round(x)

\* What the fiscal years before f bring, their lines being summed without
\* rounding ...
RECURSIVE RawCarried(_, _, _, _)
RawCarried(a, n, f, w) ==
    LET ps == {p \in YearIds : ImmediatelyBefore(p, f)}
    IN  IF ps = {} THEN 0
        ELSE LET p == CHOOSE x \in ps : TRUE
             IN  IF fiscalyear[p].state = "close"
                 THEN DeferralFigure(a, n, p)
                 ELSE RawFigure(a, n, p, w) + RawCarried(a, n, p, w)

\* ... and the sum of each of them being rounded
RECURSIVE RoundedCarried(_, _, _, _)
RoundedCarried(a, n, f, w) ==
    LET ps == {p \in YearIds : ImmediatelyBefore(p, f)}
    IN  IF ps = {} THEN 0
        ELSE LET p == CHOOSE x \in ps : TRUE
             IN  IF fiscalyear[p].state = "close"
                 THEN DeferralFigure(a, n, p)
                 ELSE Rounded(n, RawFigure(a, n, p, w))
                        + RoundedCarried(a, n, p, w)

\* The names of the finished call that were extended
ExtendedNames ==
    Extended([result EXCEPT !.names = result.asked, !.ctx = result.window])

NextParty ==
    \/ \E f \in YearIds, flag \in BOOLEAN :
        \E ctx \in YearWindows(f, flag) :
            Ask("get_credit_debit", AccountIds,
                IF flag THEN {"debit", "line_count"} ELSE Names, ctx)
    \/ \E f \in YearIds : \E ctx \in YearWindows(f, FALSE) :
            AskParty("get_balance", AccountIds, {"balance"}, ctx)
    \/ \E f \in YearIds, flag \in BOOLEAN :
        \E ctx \in YearWindows(f, flag) :
            AskParty("get_credit_debit", AccountIds,
                     IF flag THEN {"credit", "amount_second_currency"}
                     ELSE Names, ctx)
    \/ Aggregate
    \/ Answers

SpecParty == InitCumulate /\ [][NextParty]_vars

\* What the fiscal years before f bring when each is computed from its lines
RECURSIVE Recomputed(_, _, _, _)
Recomputed(a, n, f, w) ==
    LET ps == {p \in YearIds : ImmediatelyBefore(p, f)}
    IN  IF ps = {} THEN 0
        ELSE LET p == CHOOSE x \in ps : TRUE
             IN  Figure(a, n, p, w) + Recomputed(a, n, p, w)

\* What the fiscal years before f bring to the call that returned
Preceding(a, n, f) ==
    IF result.model = "account.account.party"
    THEN Recomputed(a, n, f, result.window)
    ELSE Carried(a, n, f, result.window)

\* C26: without cumulate in the context, get_credit_debit of an account, or
\* of an account with a party, gives debit, credit and line_count for the
\* window alone and amount_second_currency with the fiscal years before
\* added; with cumulate every name asked has the fiscal years before added.
C26_CumulatedNames ==
    Returned("get_credit_debit") =>
        \A n \in result.asked : \A a \in result.accounts :
            \A f \in QueriedYears(result.window) :
                result.values[n][a] =
                    Figure(a, n, f, result.window)
                    + IF \/ result.window.cumulate
                         \/ n = "amount_second_currency"
                      THEN Preceding(a, n, f)
                      ELSE 0

\* Without cumulate, account 1 in a fiscal year with lines before it: debit
\* is the one of the window, amount_second_currency has more than the window
C26_Witness ==
    /\ Returned("get_credit_debit")
    /\ ~result.window.cumulate
    /\ result.asked = Names
    /\ \E f \in QueriedYears(result.window) :
        /\ result.values["debit"][1] = Figure(1, "debit", f, result.window)
        /\ Preceding(1, "debit", f) # 0
        /\ result.values["amount_second_currency"][1]
                # Figure(1, "amount_second_currency", f, result.window)

\* The run of a method of AccountParty that hands names to _cumulate
PartyCumulating ==
    /\ Aggregating
    /\ result.model = "account.account.party"
    /\ Extended(result) # {}

\* C29: the cumulation for the records of accounts with a party never reads
\* a deferral: also when the fiscal year before is closed the method runs
\* again for that year, once for each earlier fiscal year until there is
\* none, and the figures returned are those of the lines.
C29_PartyRecomputes ==
    /\ [][PartyCumulating =>
            LET ps == {p \in YearIds :
                        \E f \in QueriedYears(result.ctx) :
                            ImmediatelyBefore(p, f)}
            IN  /\ ps = {} => result'.pc = "done"
                /\ \A p \in ps :
                    /\ result'.pc = "call"
                    /\ result'.arg = result.arg + 1
                    /\ result'.ctx.fiscalyear = p]_vars
    /\ []((result.op \in {"get_balance", "get_credit_debit"}
            /\ result.pc = "done" /\ result.err = "ok"
            /\ result.model = "account.account.party") =>
                \A n \in ExtendedNames : \A a \in result.accounts :
                    \A f \in QueriedYears(result.window) :
                        result.values[n][a] =
                            Figure(a, n, f, result.window)
                            + Recomputed(a, n, f, result.window))

\* The balance of account 1 with a party in a fiscal year that follows a
\* closed one with a deferral: the second run was for the closed year.
C29_Witness ==
    /\ Returned("get_balance")
    /\ result.model = "account.account.party"
    /\ result.arg >= 1
    /\ \E f \in QueriedYears(result.window) : \E p \in YearIds :
        /\ ImmediatelyBefore(p, f)
        /\ fiscalyear[p].state = "close"
        /\ Held(1, p) # {}
        /\ result.values["balance"][1]
                # Figure(1, "balance", f, result.window)
                    + Carried(1, "balance", f, result.window)

(***************************************************************************)
(* SpecCloseLive: two or more calls of Period.close that have started      *)
(* together, on periods with or without a move, run to their end.  Every   *)
(* statement that can run does run in the end.                             *)
(***************************************************************************)
\* The periods the calls are for
CloseCalls == {{1}, Existing}

CloseStarted(ps) ==
    [Started("close", IF Len(close_locks) > 0 THEN "lock" ELSE "body", 1)
        EXCEPT !.done = Filtered(ps, "close")]

\* The bags of n calls that have started
RECURSIVE CloseBags(_)
CloseBags(n) ==
    IF n = 0 THEN {EmptyBag}
    ELSE {b (+) SetToBag({CloseStarted(ps)}) :
            b \in CloseBags(n - 1), ps \in CloseCalls}

InitCloseLive ==
    /\ period = [p \in PeriodIds |-> Row(with_sequence(LifeVals(p)))]
    /\ move \in {<<>>} \cup {<<[period |-> p, state |-> s]>> :
                                p \in PeriodIds, s \in {"draft", "posted"}}
    /\ jp = [k \in PeriodIds \X JournalIds |-> "open"]
    /\ fyState = [f \in FiscalYearIds |-> "open"]
    /\ last = NoCall
    /\ txn \in UNION {CloseBags(n) : n \in 2..MaxTxn}
    /\ LedgerInit

NextCloseLive ==
    \/ \E r \in Running : CloseLock(r)
    \/ \E r \in Running : CloseLockBusy(r)
    \/ \E r \in Running : CloseBody(r)
    \/ \E r \in Running : CloseCommit(r)

SpecCloseLive ==
    InitCloseLive /\ [][NextCloseLive]_vars /\ WF_vars(NextCloseLive)

\* C30: calls of Period.close that run together do not block each other for
\* ever on the locks of the tables: each takes the lock of the table of
\* journal-periods first and the lock of the table of moves second, holds
\* both before it reads a move, and each comes to its end, closed or failed.
C30_ClosesFinish ==
    /\ [](\A r \in Running :
            /\ "account_move" \in r.held =>
                    "account_journal_period" \in r.held
            /\ r.pc \in {"body", "commit"} =>
                    {"account_journal_period", "account_move"}
                        \subseteq r.held)
    /\ <>(txn = EmptyBag)

\* Of the calls that started together one is left: it holds both locks and
\* is about to commit the close of period 1.
C30_Witness ==
    /\ BagCardinality(txn) = 1
    /\ \E r \in Running :
        /\ r.pc = "commit"
        /\ 1 \in r.done
        /\ {"account_journal_period", "account_move"} \subseteq r.held

====
